---- MODULE Spec2Model ----
(***************************************************************************)
(* A model of the acquisition pipeline of clean-speech-dataset-generator.  *)
(*                                                                         *)
(*   Spec        one AudioBookFile (a Chapter) and the file system it      *)
(*               writes to: the property setters of src/book.py and        *)
(*               Chapter.download.                                         *)
(*   SpecSelect  the selection loops of download_clean_speech_files        *)
(*               (src/generate_dataset.py), run on every bounded input.    *)
(*   SpecCatalog fetch_all_books and fetch_titles_from_page                *)
(*               (src/download_librivox.py) against every bounded catalog. *)
(*   SpecTransport, SpecTransportLive                                      *)
(*               one GET under the retry policy of make_session            *)
(*               (src/download_session.py).                                *)
(*   SpecBatch   the loops that call chapter.download() on each chapter.   *)
(*   SpecChapterFetch  fetch_all_books_chapters and fetch_all_chapters.    *)
(*   SpecItemFetch, SpecNoise  fetch_total_n_items and download_n_files    *)
(*               (src/download_internetarchive.py).                        *)
(*   SpecLanguage  the language setter of AudioBookFile.                   *)
(*   SpecDirTasks  tasks that assign download_dir at the same time.        *)
(*   SpecPipeline  download_clean_speech_files from the catalog scan to    *)
(*               the selection, the pool tasks completing in any order.    *)
(*   SpecSize    the size setter of AudioBookFile.                         *)
(*                                                                         *)
(* Strings are sequences of one-character strings, so that strip(), split  *)
(* and os.path.join are computed and not assumed.  Directory names and     *)
(* file names are single path components (no separator inside them).       *)
(***************************************************************************)
EXTENDS Integers, Sequences, FiniteSets, TLC

VARIABLES
    language_code,      \* AudioBookFile._language_code
    download_url,       \* AudioBookFile._download_url
    download_dir,       \* AudioBookFile._download_dir
    download_filename,  \* AudioBookFile._download_filename
    download_path,      \* AudioBookFile._download_path
    size,               \* AudioBookFile._size
    files,              \* the regular files on disk: path -> content
    dirs,               \* the directories on disk
    requests,           \* number of GET requests issued by download()
    op,                 \* the last call made on the asset
    overwrite,          \* the overwrite argument of the last download() call
    ret,                \* how the last call ended: a return value or the exception raised
    moved,              \* whether the last call moved the file with shutil.move
    net,                \* what the network did in the last call ("none": no request)
    \* download_clean_speech_files
    NUM_LANGUAGES,          \* the module's NUM_LANGUAGES
    CHAPTERS_PER_LANGUAGE,  \* the module's CHAPTERS_PER_LANGUAGE
    chapters,               \* the chapters of all books, in the order lines 31-32 visit them
    language_keys,          \* languages.keys(), in insertion order
    languages,              \* the dict languages: language code -> list of chapters
    chapter_count,
    readers,
    chapters_to_download,
    idx,                    \* the outer loop's idx
    chaps_per_lang,
    pos,                    \* the inner loop's position in languages[language]
    sel_pc,                 \* where download_clean_speech_files is
    \* fetch_all_books
    server,             \* the catalog endpoint: page number -> response
    start_page,
    end_page,
    need_update_page,
    probes,             \* the pages probed by the bound-extension loop, in order
    pending,            \* the pages given to pool.map whose task has not completed
    fetched_titles,     \* page -> what fetch_titles_from_page(page) gave
    fetch_count,        \* page -> number of calls fetch_titles_from_page(page) by the pool
    all_books,
    cat_pc,             \* where fetch_all_books is
    \* one record per further component ("idle" while another component runs)
    transport,          \* one GET through the session of make_session()
    batch,              \* the chapter download loop
    chapter_fetch,      \* fetch_all_books_chapters
    item_fetch,         \* fetch_total_n_items
    noise,              \* download_n_files
    lang_input,         \* the text last given to the language setter
    dir_tasks,          \* tasks that assign download_dir at the same time
    page_http,          \* the HTTP requests of the catalog page fetches
    pipeline,           \* download_clean_speech_files from the catalog scan to the selection
    size_input          \* the value last given to the size setter

assetVars == <<language_code, download_url, download_dir, download_filename,
               download_path, size, files, dirs, requests, op, overwrite, ret, moved, net>>

selectVars == <<NUM_LANGUAGES, CHAPTERS_PER_LANGUAGE, chapters, language_keys, languages,
                chapter_count, readers, chapters_to_download, idx, chaps_per_lang, pos,
                sel_pc>>

catalogVars == <<server, start_page, end_page, need_update_page, probes, pending,
                 fetched_titles, fetch_count, all_books, cat_pc>>

laterVars == <<transport, batch, chapter_fetch, item_fetch, noise, lang_input, dir_tasks, page_http,
              pipeline, size_input>>

vars == <<assetVars, selectVars, catalogVars, laterVars>>

\* the value of a component that is not running
Idle == [out |-> "idle"]

\* every component of laterVars other than `own` is idle / stays as it is
LaterIdleExcept(own) ==
    /\ IF own = "transport" THEN TRUE ELSE transport = Idle
    /\ IF own = "batch" THEN TRUE ELSE batch = Idle
    /\ IF own = "chapter_fetch" THEN TRUE ELSE chapter_fetch = Idle
    /\ IF own = "item_fetch" THEN TRUE ELSE item_fetch = Idle
    /\ IF own = "noise" THEN TRUE ELSE noise = Idle
    /\ IF own = "lang_input" THEN TRUE ELSE lang_input = Idle
    /\ IF own = "dir_tasks" THEN TRUE ELSE dir_tasks = Idle
    /\ IF own = "page_http" THEN TRUE ELSE page_http = Idle
    /\ IF own = "pipeline" THEN TRUE ELSE pipeline = Idle
    /\ IF own = "size_input" THEN TRUE ELSE size_input = Idle

LaterUnchangedExcept(own) ==
    /\ IF own = "transport" THEN TRUE ELSE UNCHANGED transport
    /\ IF own = "batch" THEN TRUE ELSE UNCHANGED batch
    /\ IF own = "chapter_fetch" THEN TRUE ELSE UNCHANGED chapter_fetch
    /\ IF own = "item_fetch" THEN TRUE ELSE UNCHANGED item_fetch
    /\ IF own = "noise" THEN TRUE ELSE UNCHANGED noise
    /\ IF own = "lang_input" THEN TRUE ELSE UNCHANGED lang_input
    /\ IF own = "dir_tasks" THEN TRUE ELSE UNCHANGED dir_tasks
    /\ IF own = "page_http" THEN TRUE ELSE UNCHANGED page_http
    /\ IF own = "pipeline" THEN TRUE ELSE UNCHANGED pipeline
    /\ IF own = "size_input" THEN TRUE ELSE UNCHANGED size_input

----------------------------------------------------------------------------
(* Bounds *)

MaxRequests == 2

\* the longest input of the selection
MaxChapters == 3

\* the largest value tried for NUM_LANGUAGES and for CHAPTERS_PER_LANGUAGE
MaxCap == 2

\* the catalog has pages 1..MaxPage; every later page answers "No results"
MaxPage == 3

----------------------------------------------------------------------------
(* Python values *)

\* Python's None; no string of the model equals it.
None == <<"None">>

\* `not x` for x a string or None.
Falsy(x) == x = None \/ x = <<>>

\* An int attribute that may be None is the set of its values: {} is None, {n} is n.
NoInt == {}

\* `not x` for x an int or None.
FalsyInt(x) == x = NoInt \/ x = {0}

RECURSIVE LStrip(_)
LStrip(s) == IF s # <<>> /\ Head(s) = " " THEN LStrip(Tail(s)) ELSE s

RECURSIVE RStrip(_)
RStrip(s) == IF s # <<>> /\ s[Len(s)] = " " THEN RStrip(SubSeq(s, 1, Len(s) - 1)) ELSE s

\* str.strip()
Strip(s) == RStrip(LStrip(s))

\* os.path.join(d, n)
Join(d, n) ==
    IF n # <<>> /\ Head(n) = "/" THEN n
    ELSE IF d = <<>> \/ d[Len(d)] = "/" THEN d \o n
    ELSE d \o <<"/">> \o n

\* url.split("/")[-1]
RECURSIVE LastSegment(_)
LastSegment(s) ==
    IF \E i \in 1..Len(s) : s[i] = "/" THEN LastSegment(Tail(s)) ELSE s

----------------------------------------------------------------------------
(* Inputs *)

DirInputs == { <<>>, <<" ">>, <<"a">>, <<" ", "a">>, <<"b">> }

NameInputs == { <<>>, <<"f">>, <<"f", " ">> }

UrlInputs == { <<>>, <<"u", "/", "f">> }

LanguageCodes == { None, <<"e", "n">> }

\* The body the server sends for the asset's URL.
Body == <<"x">>

\* What the network does with one GET of download().
NetOutcomes == { "get_raises", "status_other", "no_length", "ok_200", "stream_raises" }

\* What the file system does with one setter call: os.mkdir or shutil.move may raise.
IoOutcomes == { "io_ok", "mkdir_fails", "move_fails" }

----------------------------------------------------------------------------
(* The file system *)

\* Path(p).exists(); Path("") is the current directory.
PathExists(p, fls, drs) == p = <<>> \/ p \in drs \/ p \in DOMAIN fls

\* shutil.move(src, dst) of a regular file to a path that is no directory.
shutil_move(fls, src, dst) ==
    [p \in (DOMAIN fls \ {src}) \cup {dst} |-> IF p = dst THEN fls[src] ELSE fls[p]]

\* open(p, "wb") followed by writing `content`.
WriteFile(fls, p, content) ==
    [q \in DOMAIN fls \cup {p} |-> IF q = p THEN content ELSE fls[q]]

----------------------------------------------------------------------------
(* AudioBookFile *)

is_downloaded_at(path, fls, drs) ==
    IF Falsy(path) THEN FALSE ELSE PathExists(path, fls, drs)

is_downloaded == is_downloaded_at(download_path, files, dirs)

\* the directories after _ensure_dir_exists(directory)
ensure_dir_exists(directory) ==
    IF PathExists(Strip(directory), files, dirs) THEN dirs ELSE dirs \cup {Strip(directory)}

\* the destination _move_self_to moves the file to, None when it moves nothing
move_destination(new_dir, new_name) ==
    IF ~is_downloaded THEN None
    ELSE IF ~Falsy(new_dir) /\ Falsy(new_name) THEN Join(new_dir, download_filename)
    ELSE IF ~Falsy(new_name) /\ Falsy(new_dir) THEN Join(download_dir, new_name)
    ELSE IF ~Falsy(new_name) /\ ~Falsy(new_dir) THEN Join(new_dir, new_name)
    ELSE None

\* a _move_self_to that copies the file and leaves the original behind
move_self_to_copy(new_dir, new_name) ==
    IF move_destination(new_dir, new_name) = None THEN files
    ELSE WriteFile(files, move_destination(new_dir, new_name), files[download_path])

\* the files after _move_self_to(new_dir, new_name)
move_self_to(new_dir, new_name) ==
    IF move_destination(new_dir, new_name) = None THEN files
    ELSE shutil_move(files, download_path, move_destination(new_dir, new_name))

\* the download_path _update_full_path stores for a directory and a file name
update_full_path(dir, name) ==
    IF ~Falsy(dir) /\ ~Falsy(name) THEN Join(dir, name) ELSE None

\* a download_dir setter that does not call _update_full_path
download_dir_setter_stale_path(value, io) ==
    LET new_dir == Strip(value)
        moving  == ~Falsy(download_path) /\ is_downloaded
    IN  [download_dir |-> new_dir,
         download_path |-> download_path,
         files |-> IF moving THEN move_self_to(new_dir, None) ELSE files,
         dirs |-> ensure_dir_exists(new_dir),
         moved |-> moving /\ move_destination(new_dir, None) # None,
         ret |-> "ok"]

\* download_dir setter: the fields it changes and how it ends
download_dir_setter(value, io) ==
    LET new_dir == Strip(value)
        made    == ensure_dir_exists(new_dir)
        moving  == ~Falsy(download_path) /\ is_downloaded
    IN  IF made # dirs /\ io = "mkdir_fails"
        THEN [download_dir |-> download_dir, download_path |-> download_path,
              files |-> files, dirs |-> dirs, moved |-> FALSE, ret |-> "OSError"]
        ELSE IF moving /\ move_destination(new_dir, None) # None /\ io = "move_fails"
        THEN [download_dir |-> download_dir, download_path |-> download_path,
              files |-> files, dirs |-> made, moved |-> FALSE, ret |-> "OSError"]
        ELSE [download_dir |-> new_dir,
              download_path |-> update_full_path(new_dir, download_filename),
              files |-> IF moving THEN move_self_to(new_dir, None) ELSE files,
              dirs |-> made,
              moved |-> moving /\ move_destination(new_dir, None) # None,
              ret |-> "ok"]

\* download_filename setter: the fields it changes and how it ends
download_filename_setter(value, io) ==
    LET new_name == Strip(value)
        moving   == ~Falsy(download_path) /\ is_downloaded
    IN  IF moving /\ move_destination(None, new_name) # None /\ io = "move_fails"
        THEN [download_filename |-> download_filename, download_path |-> download_path,
              files |-> files, moved |-> FALSE, ret |-> "OSError"]
        ELSE [download_filename |-> new_name,
              download_path |-> update_full_path(download_dir, new_name),
              files |-> IF moving THEN move_self_to(None, new_name) ELSE files,
              moved |-> moving /\ move_destination(None, new_name) # None,
              ret |-> "ok"]

\* the file name the download_url setter derives from a URL
derived_filename(new_url) ==
    (IF ~Falsy(language_code) THEN language_code ELSE <<>>) \o <<"_">> \o LastSegment(new_url)

\* delete_file(): `self.is_downloaded()` calls the bool the property returns, which
\* raises TypeError before os.remove is reached, whether or not the file exists.
delete_file == [files |-> files, raises |-> "TypeError"]

\* a download() that checks the directory only
config_error_dir_only == Falsy(download_dir)

\* download(): the two checks that raise "... has not been set"
config_error == Falsy(download_dir) \/ Falsy(download_url)

\* a download() that transfers whether or not the file is there
needs_transfer_always(ow) == TRUE

\* a download() that transfers only when asked to overwrite
needs_transfer_overwrite_only(ow) == ow

\* download(): `if not self.is_downloaded or overwrite`
needs_transfer(ow) == ~is_downloaded \/ ow

----------------------------------------------------------------------------
(* The calls on the asset *)

SetDownloadDir(value, io) ==
    LET r == download_dir_setter(value, io)
    IN  /\ io = "mkdir_fails" => ensure_dir_exists(value) # dirs   \* os.mkdir is called
        /\ io = "move_fails" => is_downloaded                       \* shutil.move is called
        /\ download_dir' = r.download_dir
        /\ download_path' = r.download_path
        /\ files' = r.files
        /\ dirs' = r.dirs
        /\ op' = "set_dir"
        /\ ret' = r.ret
        /\ moved' = r.moved
        /\ overwrite' = FALSE
        /\ net' = "none"
        /\ UNCHANGED <<language_code, download_url, download_filename, size, requests>>
        /\ UNCHANGED <<selectVars, catalogVars, laterVars>>

SetDownloadFilename(value, io) ==
    LET r == download_filename_setter(value, io)
    IN  /\ io = "mkdir_fails" => FALSE                              \* os.mkdir is not called
        /\ io = "move_fails" => is_downloaded                       \* shutil.move is called
        /\ download_filename' = r.download_filename
        /\ download_path' = r.download_path
        /\ files' = r.files
        /\ op' = "set_filename"
        /\ ret' = r.ret
        /\ moved' = r.moved
        /\ overwrite' = FALSE
        /\ net' = "none"
        /\ UNCHANGED <<language_code, download_url, download_dir, size, dirs, requests>>
        /\ UNCHANGED <<selectVars, catalogVars, laterVars>>

\* a download_url setter that derives the file name from every URL it is given
derives_filename_always == TRUE

\* download_url setter: `if not self.download_filename`
derives_filename == Falsy(download_filename)

\* The file name is derived only when none is set; download_path is then None and the
\* download_filename setter neither moves a file nor creates a directory.
SetDownloadUrl(new_url) ==
    /\ download_url' = new_url
    /\ IF derives_filename
       THEN LET r == download_filename_setter(derived_filename(new_url), "io_ok")
            IN  /\ download_filename' = r.download_filename
                /\ download_path' = r.download_path
                /\ files' = r.files
                /\ ret' = r.ret
                /\ moved' = r.moved
       ELSE /\ ret' = "ok"
            /\ moved' = FALSE
            /\ UNCHANGED <<download_filename, download_path, files>>
    /\ op' = "set_url"
    /\ overwrite' = FALSE
    /\ net' = "none"
    /\ UNCHANGED <<language_code, download_dir, size, dirs, requests>>
    /\ UNCHANGED <<selectVars, catalogVars, laterVars>>

\* Chapter.download(overwrite) with the network behaving as `outcome`: what the call
\* does to the asset and to the file system
DownloadCall(ow, outcome) ==
    /\ op' = "download"
    /\ overwrite' = ow
    /\ moved' = FALSE
    /\ UNCHANGED <<language_code, download_url, download_dir, download_filename,
                   download_path, dirs>>
    /\ IF config_error
       THEN /\ ret' = "ConfigError"
            /\ net' = "none"
            /\ UNCHANGED <<size, files, requests>>
       ELSE IF ~needs_transfer(ow)
       THEN /\ ret' = "True"
            /\ net' = "none"
            /\ UNCHANGED <<size, files, requests>>
       ELSE /\ requests < MaxRequests
            /\ requests' = requests + 1
            /\ net' = outcome
            /\ CASE outcome = "get_raises" ->
                      \* session.get raises; the handler calls delete_file
                      /\ ret' = delete_file.raises
                      /\ files' = delete_file.files
                      /\ UNCHANGED size
                 [] outcome = "status_other" ->
                      \* no exception: the else clause looks at the path
                      /\ ret' = IF download_path = None THEN "TypeError"
                                ELSE IF PathExists(download_path, files, dirs) THEN "True"
                                ELSE "False"
                      /\ UNCHANGED <<size, files>>
                 [] outcome = "no_length" ->
                      \* status 200 without a Content-Length header
                      IF FalsyInt(size)
                      THEN /\ ret' = delete_file.raises
                           /\ files' = delete_file.files
                           /\ UNCHANGED size
                      ELSE IF download_path = None
                      THEN /\ ret' = delete_file.raises
                           /\ files' = delete_file.files
                           /\ UNCHANGED size
                      ELSE /\ ret' = "True"
                           /\ files' = WriteFile(files, download_path, Body)
                           /\ UNCHANGED size
                 [] outcome = "ok_200" ->
                      /\ size' = IF FalsyInt(size) THEN {Len(Body)} ELSE size
                      /\ IF download_path = None
                         THEN /\ ret' = delete_file.raises
                              /\ files' = delete_file.files
                         ELSE /\ ret' = "True"
                              /\ files' = WriteFile(files, download_path, Body)
                 [] outcome = "stream_raises" ->
                      \* status 200, the body breaks off after a strict prefix
                      /\ size' = IF FalsyInt(size) THEN {Len(Body)} ELSE size
                      /\ IF download_path = None
                         THEN /\ ret' = delete_file.raises
                              /\ files' = delete_file.files
                         ELSE \E k \in 0..(Len(Body) - 1) :
                              /\ ret' = delete_file.raises
                              /\ files' = [q \in DOMAIN WriteFile(files, download_path, SubSeq(Body, 1, k))
                                            |-> IF q = download_path THEN SubSeq(Body, 1, k)
                                                ELSE delete_file.files[q]]

Download(ow, outcome) ==
    /\ DownloadCall(ow, outcome)
    /\ UNCHANGED <<selectVars, catalogVars, laterVars>>

\* the selection before download_clean_speech_files is called
SelectIdle ==
    /\ NUM_LANGUAGES = 0
    /\ CHAPTERS_PER_LANGUAGE = 0
    /\ chapters = << >>
    /\ language_keys = << >>
    /\ languages = << >>
    /\ chapter_count = 0
    /\ readers = {}
    /\ chapters_to_download = << >>
    /\ idx = 0
    /\ chaps_per_lang = 0
    /\ pos = 0
    /\ sel_pc = "idle"

\* the catalog scan before fetch_all_books is called
CatalogIdle ==
    /\ server = << >>
    /\ start_page = 0
    /\ end_page = 0
    /\ need_update_page = FALSE
    /\ probes = << >>
    /\ pending = {}
    /\ fetched_titles = << >>
    /\ fetch_count = << >>
    /\ all_books = << >>
    /\ cat_pc = "idle"

\* a freshly constructed asset with the language code `code`
AssetNew(code) ==
    /\ language_code = code
    /\ download_url = None
    /\ download_dir = None
    /\ download_filename = None
    /\ download_path = None
    /\ size = NoInt
    /\ files = << >>
    /\ dirs = {}
    /\ requests = 0
    /\ op = "init"
    /\ overwrite = FALSE
    /\ ret = "ok"
    /\ moved = FALSE
    /\ net = "none"

Init ==
    /\ \E code \in LanguageCodes : AssetNew(code)
    /\ SelectIdle
    /\ CatalogIdle
    /\ LaterIdleExcept("none")

Next ==
    \/ \E v \in DirInputs, io \in IoOutcomes : SetDownloadDir(v, io)
    \/ \E v \in NameInputs, io \in IoOutcomes : SetDownloadFilename(v, io)
    \/ \E u \in UrlInputs : SetDownloadUrl(u)
    \/ \E ow \in BOOLEAN, o \in NetOutcomes : Download(ow, o)

Spec == Init /\ [][Next]_vars

----------------------------------------------------------------------------
(* download_clean_speech_files: grouping by language and selection *)

ReaderNames == { "r1", "r2", "r3" }

ChapterLanguageCodes == { "en", "es", "de" }

\* `language in languages`
InDict(code) == code \in DOMAIN languages

\* a selection that takes every chapter, whoever reads it
reader_is_new_always(chapter) == TRUE

\* `chapter.reader_name not in readers`
reader_is_new(chapter) == chapter.reader_name \notin readers

\* a per-language cap that lets one chapter too many through
chapter_cap_reached_late(n) == n > CHAPTERS_PER_LANGUAGE

\* `chaps_per_lang >= CHAPTERS_PER_LANGUAGE`
chapter_cap_reached(n) == n >= CHAPTERS_PER_LANGUAGE

\* a language cap that counts the languages that yielded a chapter, so that a
\* later language fills in for one that yielded none
language_cap_counts_yielding(i) ==
    Cardinality({ chapters_to_download[k].language_code :
                    k \in 1..Len(chapters_to_download) }) >= NUM_LANGUAGES

\* `idx >= NUM_LANGUAGES`
language_cap_reached(i) == i >= NUM_LANGUAGES

\* lines 31-37: one iteration of the grouping loops
GroupChapter ==
    /\ sel_pc = "group"
    /\ chapter_count < Len(chapters)
    /\ LET chapter == chapters[chapter_count + 1]
           code    == chapter.language_code
       IN  IF InDict(code)
           THEN /\ languages' = [languages EXCEPT ![code] = Append(@, chapter)]
                /\ UNCHANGED language_keys
           ELSE /\ languages' = [c \in DOMAIN languages \cup {code} |->
                                    IF c = code THEN <<chapter>> ELSE languages[c]]
                /\ language_keys' = Append(language_keys, code)
    /\ chapter_count' = chapter_count + 1
    /\ UNCHANGED <<NUM_LANGUAGES, CHAPTERS_PER_LANGUAGE, chapters, readers,
                   chapters_to_download, idx, chaps_per_lang, pos, sel_pc>>
    /\ UNCHANGED <<assetVars, catalogVars, laterVars>>

\* lines 39-42: the grouping loops are over, the selection begins
StartSelection ==
    /\ sel_pc = "group"
    /\ chapter_count = Len(chapters)
    /\ chapters_to_download' = << >>
    /\ idx' = 0
    /\ sel_pc' = "language"
    /\ UNCHANGED <<NUM_LANGUAGES, CHAPTERS_PER_LANGUAGE, chapters, language_keys, languages,
                   chapter_count, readers, chaps_per_lang, pos>>
    /\ UNCHANGED <<assetVars, catalogVars, laterVars>>

\* lines 42-46: the head of the outer loop
NextLanguage ==
    /\ sel_pc = "language"
    /\ IF idx >= Len(language_keys) \/ language_cap_reached(idx)
       THEN /\ sel_pc' = "done"
            /\ UNCHANGED <<chaps_per_lang, pos>>
       ELSE /\ chaps_per_lang' = 0
            /\ pos' = 1
            /\ sel_pc' = "chapter"
    /\ UNCHANGED <<NUM_LANGUAGES, CHAPTERS_PER_LANGUAGE, chapters, language_keys, languages,
                   chapter_count, readers, chapters_to_download, idx>>
    /\ UNCHANGED <<assetVars, catalogVars, laterVars>>

\* lines 46-54: one iteration of the inner loop, or its end
ConsiderChapter ==
    /\ sel_pc = "chapter"
    /\ LET bucket == languages[language_keys[idx + 1]]
       IN  IF pos > Len(bucket) \/ chapter_cap_reached(chaps_per_lang)
           THEN /\ idx' = idx + 1
                /\ sel_pc' = "language"
                /\ UNCHANGED <<readers, chapters_to_download, chaps_per_lang, pos>>
           ELSE /\ IF reader_is_new(bucket[pos])
                   THEN /\ chaps_per_lang' = chaps_per_lang + 1
                        /\ readers' = readers \cup {bucket[pos].reader_name}
                        /\ chapters_to_download' = Append(chapters_to_download, bucket[pos])
                   ELSE UNCHANGED <<chaps_per_lang, readers, chapters_to_download>>
                /\ pos' = pos + 1
                /\ UNCHANGED <<idx, sel_pc>>
    /\ UNCHANGED <<NUM_LANGUAGES, CHAPTERS_PER_LANGUAGE, chapters, language_keys, languages,
                   chapter_count>>
    /\ UNCHANGED <<assetVars, catalogVars, laterVars>>

\* line 28-30, for every input of at most MaxChapters chapters and every pair of caps
InitSelect ==
    /\ AssetNew(None)
    /\ CatalogIdle
    /\ LaterIdleExcept("none")
    /\ NUM_LANGUAGES \in 1..MaxCap
    /\ CHAPTERS_PER_LANGUAGE \in 1..MaxCap
    /\ \E n \in 0..MaxChapters :
         \E f \in [1..n -> ReaderNames \X ChapterLanguageCodes] :
            chapters = [i \in 1..n |-> [n |-> i, reader_name |-> f[i][1],
                                        language_code |-> f[i][2]]]
    /\ language_keys = << >>
    /\ languages = << >>
    /\ chapter_count = 0
    /\ readers = {}
    /\ chapters_to_download = << >>
    /\ idx = 0
    /\ chaps_per_lang = 0
    /\ pos = 0
    /\ sel_pc = "group"

NextSelect ==
    \/ GroupChapter
    \/ StartSelection
    \/ NextLanguage
    \/ ConsiderChapter

SpecSelect == InitSelect /\ [][NextSelect]_vars

----------------------------------------------------------------------------
(* Claims on the selection, checked under SpecSelect *)

\* the chapters selected so far of one language code
SelectedOf(code) ==
    { i \in 1..Len(chapters_to_download) : chapters_to_download[i].language_code = code }

\* C7: chapters_to_download never holds two chapters with the same reader_name,
\* whatever their languages.
C7_OneChapterPerReader ==
    \A i, j \in 1..Len(chapters_to_download) :
        i # j => chapters_to_download[i].reader_name # chapters_to_download[j].reader_name

\* C7 witness: the selection is over, and a chapter was left out because its reader
\* had been taken by a selected chapter of another language.
C7_Witness ==
    /\ sel_pc = "done"
    /\ \E i \in 1..Len(chapters), j \in 1..Len(chapters_to_download) :
          /\ chapters[i].reader_name = chapters_to_download[j].reader_name
          /\ chapters[i].language_code # chapters_to_download[j].language_code
          /\ \E k \in 1..idx : language_keys[k] = chapters[i].language_code
          /\ Cardinality(SelectedOf(chapters[i].language_code)) < CHAPTERS_PER_LANGUAGE
          /\ \A k \in 1..Len(chapters_to_download) : chapters_to_download[k] # chapters[i]

\* C8: the selected list holds at most CHAPTERS_PER_LANGUAGE chapters of any one
\* language code and chapters of at most NUM_LANGUAGES distinct language codes.
C8_CapsRespected ==
    /\ \A code \in ChapterLanguageCodes : Cardinality(SelectedOf(code)) <= CHAPTERS_PER_LANGUAGE
    /\ Cardinality({ chapters_to_download[i].language_code :
                       i \in 1..Len(chapters_to_download) }) <= NUM_LANGUAGES

\* C8 witness: the selection is over; the input had more languages than
\* NUM_LANGUAGES and a language with more new readers than CHAPTERS_PER_LANGUAGE,
\* and both caps were reached.
C8_Witness ==
    /\ sel_pc = "done"
    /\ Len(language_keys) > NUM_LANGUAGES
    /\ idx = NUM_LANGUAGES
    /\ \E code \in ChapterLanguageCodes :
          /\ Cardinality(SelectedOf(code)) = CHAPTERS_PER_LANGUAGE
          /\ Cardinality({ c.reader_name : c \in { chapters[i] : i \in
                 { k \in 1..Len(chapters) : chapters[k].language_code = code } } })
                > CHAPTERS_PER_LANGUAGE

\* the place of the language of chapters[i] in the order in which the languages
\* are first seen in the input
BucketIndex(i) ==
    LET first == CHOOSE j \in 1..i :
                    /\ chapters[j].language_code = chapters[i].language_code
                    /\ \A h \in 1..(j - 1) :
                          chapters[h].language_code # chapters[i].language_code
    IN  Cardinality({ chapters[h].language_code : h \in 1..first })

\* chapters[j] comes before chapters[i] in bucket order: an earlier bucket, or the
\* same bucket and earlier in the input
ConsideredBefore(j, i) ==
    \/ BucketIndex(j) < BucketIndex(i)
    \/ BucketIndex(j) = BucketIndex(i) /\ j < i

\* the input positions of the selected chapters
SelectedPositions == { chapters_to_download[k].n : k \in 1..Len(chapters_to_download) }

\* the reader of chapters[i] was claimed by a selected chapter considered before it
ReaderClaimed(i) ==
    \E j \in SelectedPositions :
        ConsideredBefore(j, i) /\ chapters[j].reader_name = chapters[i].reader_name

\* the selected chapters of the bucket of chapters[i] that come before it
SelectedEarlierInBucket(i) ==
    { j \in SelectedPositions : BucketIndex(j) = BucketIndex(i) /\ j < i }

\* C29: the selection is greedy, without backtracking, over the first NUM_LANGUAGES
\* buckets in first-seen order: a chapter is selected exactly if its bucket is one
\* of these, its reader was not claimed before and fewer than
\* CHAPTERS_PER_LANGUAGE chapters of its bucket were selected before it; the
\* selected list is in bucket order; a bucket yields fewer than
\* CHAPTERS_PER_LANGUAGE only if every unselected chapter of it has a claimed
\* reader; a language first seen after the first NUM_LANGUAGES contributes nothing.
C29_GreedyFirstBuckets ==
    sel_pc = "done" =>
       /\ \A i \in 1..Len(chapters) :
             i \in SelectedPositions
                <=> /\ BucketIndex(i) <= NUM_LANGUAGES
                    /\ ~ReaderClaimed(i)
                    /\ Cardinality(SelectedEarlierInBucket(i)) < CHAPTERS_PER_LANGUAGE
       /\ \A k \in 1..Len(chapters_to_download) :
             chapters_to_download[k] = chapters[chapters_to_download[k].n]
       /\ \A k, m \in 1..Len(chapters_to_download) :
             k < m => ConsideredBefore(chapters_to_download[k].n, chapters_to_download[m].n)
       /\ \A i \in 1..Len(chapters) :
             (/\ BucketIndex(i) <= NUM_LANGUAGES
              /\ i \notin SelectedPositions
              /\ Cardinality({ j \in SelectedPositions : BucketIndex(j) = BucketIndex(i) })
                    < CHAPTERS_PER_LANGUAGE)
                => ReaderClaimed(i)
       /\ \A i \in SelectedPositions : BucketIndex(i) <= NUM_LANGUAGES

\* C29 witness: the selection is over; the second of two allowed buckets yielded
\* nothing because its reader was claimed, and a third language, whose reader is
\* free, was left out.
C29_Witness ==
    /\ sel_pc = "done"
    /\ NUM_LANGUAGES = 2
    /\ Len(language_keys) = 3
    /\ Len(chapters_to_download) = 1
    /\ \E i \in 1..Len(chapters) :
          /\ BucketIndex(i) = 2
          /\ ReaderClaimed(i)
    /\ \E i \in 1..Len(chapters) :
          /\ BucketIndex(i) = 3
          /\ ~ReaderClaimed(i)
          /\ i \notin SelectedPositions

----------------------------------------------------------------------------
(* The catalog scan: fetch_titles_from_page and fetch_all_books *)

\* The bodies the catalog endpoint may send.
GarbageText == "<html>502 Bad Gateway</html>"
NoStatusText == "{\"results\": \"<li class=catalog-result>\"}"
NoResultsFieldText == "{\"status\": \"SUCCESS\"}"
FailureText == "{\"status\": \"FAILURE\", \"results\": \"\"}"
NoResultsText == "{\"status\": \"SUCCESS\", \"results\": \"No results\"}"
EmptyCatalogText == "{\"status\": \"SUCCESS\", \"results\": \"<p></p>\"}"
BooksText == "{\"status\": \"SUCCESS\", \"results\": \"<li class=catalog-result>\"}"

\* json.loads on the bodies above; a body outside the table is no JSON
JsonTable ==
    [t \in {NoStatusText, NoResultsFieldText, FailureText, NoResultsText,
            EmptyCatalogText, BooksText} |->
        CASE t = NoStatusText -> [results |-> "<li class=catalog-result>"]
          [] t = NoResultsFieldText -> [status |-> "SUCCESS"]
          [] t = FailureText -> [status |-> "FAILURE", results |-> ""]
          [] t = NoResultsText -> [status |-> "SUCCESS", results |-> "No results"]
          [] t = EmptyCatalogText -> [status |-> "SUCCESS", results |-> "<p></p>"]
          [] t = BooksText -> [status |-> "SUCCESS", results |-> "<li class=catalog-result>"]]

\* The responses of the catalog endpoint to one page request.
Responses ==
    { [status_code |-> 200, text |-> t] :
        t \in {GarbageText, NoStatusText, NoResultsFieldText, FailureText,
               NoResultsText, EmptyCatalogText, BooksText} }
    \cup { [status_code |-> 404, text |-> GarbageText],
           [status_code |-> 503, text |-> GarbageText] }

\* the response to a request for page p
ServerResponse(p) ==
    IF p \in DOMAIN server THEN server[p] ELSE [status_code |-> 200, text |-> NoResultsText]

\* the books scraped from the results of page p: one Book per catalog-result element
ScrapeBooks(html, p) ==
    IF html = "<li class=catalog-result>" THEN << [title |-> p] >> ELSE << >>

\* what a call of fetch_titles_from_page gives: the pair it returns, or the exception
Returned(books, ok) == [books |-> books, ok |-> ok, raises |-> "no"]
Raised(exception) == [books |-> << >>, ok |-> FALSE, raises |-> exception]

\* fetch_titles_from_page(page_number, get_books)
fetch_titles_from_page(page_number, get_books) ==
    LET result == ServerResponse(page_number)
    IN  IF result.status_code # 200 THEN Returned(<< >>, FALSE)
        ELSE IF result.text \notin DOMAIN JsonTable THEN Raised("JSONDecodeError")
        ELSE LET json_result == JsonTable[result.text]
             IN  IF "status" \notin DOMAIN json_result THEN Raised("KeyError")
                 ELSE IF json_result.status # "SUCCESS" THEN Returned(<< >>, FALSE)
                 ELSE IF "results" \notin DOMAIN json_result THEN Raised("KeyError")
                 ELSE IF json_result.results = "No results" THEN Returned(<< >>, FALSE)
                 ELSE IF get_books
                      THEN Returned(ScrapeBooks(json_result.results, page_number), TRUE)
                      ELSE Returned(<< >>, TRUE)

\* line 81: requests.get goes through the default adapter of requests, which
\* sends the request once and hands back the response whatever its status
requests_get_sent(status_code) == 1

\* f with k added at p
Bump(f, p, k) ==
    [q \in DOMAIN f \cup {p} |->
        (IF q \in DOMAIN f THEN f[q] ELSE 0) + (IF q = p THEN k ELSE 0)]

\* page_http after one call of fetch_titles_from_page(p, ...): calls counts the
\* calls for a page, sent the HTTP requests that went out for it; order lists the
\* pages of the pool in the order in which their tasks completed
PageRequested(p) ==
    [page_http EXCEPT !.calls = Bump(@, p, 1),
                      !.sent = Bump(@, p, requests_get_sent(ServerResponse(p).status_code))]

\* range(start_page, end_page)
page_range(first, last) == first..(last - 1)

\* a map() that hands the results back in the order in which the tasks completed
page_result_by_completion(p) == fetched_titles[page_http.order[p - start_page + 1]]

\* line 172: the element of fetched_titles for page p; pool.map returns the
\* results in the order of its inputs
page_result(p) == fetched_titles[p]

\* lines 174-177: the books of the pages that succeeded, in page order
RECURSIVE MergeBooks(_, _)
MergeBooks(first, last) ==
    IF first > last THEN << >>
    ELSE (IF first \in DOMAIN fetched_titles /\ page_result(first).ok
          THEN page_result(first).books ELSE << >>)
         \o MergeBooks(first + 1, last)

\* lines 162-167: one iteration of the bound-extension loop
Probe ==
    /\ cat_pc = "probe"
    /\ need_update_page
    /\ LET r == fetch_titles_from_page(end_page, FALSE)
       IN  /\ probes' = Append(probes, end_page)
           /\ IF r.raises # "no"
              THEN /\ cat_pc' = "raised"
                   /\ UNCHANGED <<need_update_page, end_page>>
              ELSE /\ need_update_page' = r.ok
                   /\ end_page' = IF r.ok THEN end_page + 1 ELSE end_page
                   /\ UNCHANGED cat_pc
    /\ page_http' = PageRequested(end_page)
    /\ UNCHANGED <<server, start_page, pending, fetched_titles, fetch_count, all_books>>
    /\ UNCHANGED <<assetVars, selectVars>>
    /\ LaterUnchangedExcept("page_http")

\* lines 169-172: the loop is over, pool.map hands out the pages
StartFetch ==
    /\ cat_pc = "probe"
    /\ ~need_update_page
    /\ pending' = page_range(start_page, end_page)
    /\ cat_pc' = "fetch"
    /\ UNCHANGED <<server, start_page, end_page, need_update_page, probes, fetched_titles,
                   fetch_count, all_books>>
    /\ UNCHANGED <<assetVars, selectVars, laterVars>>

\* a worker of the pool completes fetch_titles_from_page(p)
FetchPage(p) ==
    /\ cat_pc = "fetch"
    /\ p \in pending
    /\ pending' = pending \ {p}
    /\ fetched_titles' = [q \in DOMAIN fetched_titles \cup {p} |->
                             IF q = p THEN fetch_titles_from_page(p, TRUE)
                             ELSE fetched_titles[q]]
    /\ fetch_count' = [q \in DOMAIN fetch_count \cup {p} |->
                          IF q \in DOMAIN fetch_count
                          THEN fetch_count[q] + (IF q = p THEN 1 ELSE 0) ELSE 1]
    /\ page_http' = [PageRequested(p) EXCEPT !.order = Append(@, p)]
    /\ UNCHANGED <<server, start_page, end_page, need_update_page, probes, all_books, cat_pc>>
    /\ UNCHANGED <<assetVars, selectVars>>
    /\ LaterUnchangedExcept("page_http")

\* lines 172-179: pool.map returns or re-raises a task's exception; the results are merged
Merge ==
    /\ cat_pc = "fetch"
    /\ pending = {}
    /\ IF \E p \in DOMAIN fetched_titles : fetched_titles[p].raises # "no"
       THEN /\ cat_pc' = "raised"
            /\ UNCHANGED all_books
       ELSE /\ cat_pc' = "done"
            /\ all_books' = MergeBooks(start_page, end_page - 1)
    /\ UNCHANGED <<server, start_page, end_page, need_update_page, probes, pending,
                   fetched_titles, fetch_count>>
    /\ UNCHANGED <<assetVars, selectVars, laterVars>>

\* fetch_all_books(start_page, end_page, need_update_page) is called: lines 157-160
InitCatalog ==
    /\ AssetNew(None)
    /\ SelectIdle
    /\ LaterIdleExcept("page_http")
    /\ page_http = [calls |-> << >>, sent |-> << >>, order |-> << >>, out |-> "run"]
    /\ server \in [1..MaxPage -> Responses]
    /\ start_page \in 1..MaxPage
    /\ end_page \in 1..MaxPage
    /\ start_page < end_page
    /\ need_update_page \in BOOLEAN
    /\ probes = << >>
    /\ pending = {}
    /\ fetched_titles = << >>
    /\ fetch_count = << >>
    /\ all_books = << >>
    /\ cat_pc = "probe"

NextCatalog ==
    \/ Probe
    \/ StartFetch
    \/ \E p \in 1..(MaxPage + 1) : FetchPage(p)
    \/ Merge

SpecCatalog == InitCatalog /\ [][NextCatalog]_vars

----------------------------------------------------------------------------
(* Claims on the catalog scan, checked under SpecCatalog *)

\* C9: with need_update_page=False, fetch_all_books fetches every page p with
\* start_page <= p <= end_page, both ends included, exactly once, and no other page.
C9_FetchesInclusiveRange ==
    (cat_pc = "done" /\ probes = << >>)
        => /\ DOMAIN fetch_count = start_page..end_page
           /\ \A p \in DOMAIN fetch_count : fetch_count[p] = 1

\* the responses for which the page fetch has nothing to give
NothingToGive(r) ==
    \/ r.status_code # 200
    \/ r.text \in {GarbageText, NoStatusText, NoResultsFieldText, FailureText, NoResultsText}

\* C10: fetch_titles_from_page returns ([], False) without raising when the status is
\* not 200, the body is no well-formed envelope, the envelope status is not SUCCESS
\* or results is "No results", and (books, True) in every other case.
C10_EmptyFalseOnFailure ==
    \A p \in DOMAIN fetched_titles :
        IF NothingToGive(ServerResponse(p))
        THEN fetched_titles[p] = Returned(<< >>, FALSE)
        ELSE fetched_titles[p].raises = "no" /\ fetched_titles[p].ok

\* the catalog has the pages 1..P: each of them answers with results, every later
\* page answers "No results"
LastExistingPageIs(P) ==
    /\ \A p \in 1..P : ServerResponse(p) = [status_code |-> 200, text |-> BooksText]
    /\ \A p \in (P + 1)..(MaxPage + 1) :
          ServerResponse(p) = [status_code |-> 200, text |-> NoResultsText]

\* C11: called with need_update_page=True on a catalog whose last existing page P
\* is at or after the given end_page, the bound-extension loop probes one page at a
\* time starting at end_page, stops at the first probe that returns False, and
\* leaves end_page equal to P.
C11_ProbeLeavesLastPage ==
    \A P \in 1..MaxPage :
        (/\ LastExistingPageIs(P)
         /\ probes # << >>
         /\ probes[1] <= P
         /\ cat_pc = "probe"
         /\ ~need_update_page)
        => /\ \A k \in 1..(Len(probes) - 1) : probes[k + 1] = probes[k] + 1
           /\ \A k \in 1..(Len(probes) - 1) : fetch_titles_from_page(probes[k], FALSE).ok
           /\ ~fetch_titles_from_page(probes[Len(probes)], FALSE).ok
           /\ end_page = P

----------------------------------------------------------------------------
(* Claims on the AudioBookFile, checked under Spec *)

\* the asset's file is a regular file at download_path
OnDisk == is_downloaded /\ download_path \in DOMAIN files

\* C1: after any sequence of assignments to download_dir, download_filename and
\* download_url, download_path is the join of the current download_dir and
\* download_filename when both are set and non-empty, and None otherwise.
C1_PathIsJoin ==
    IF download_dir \notin {None, <<>>} /\ download_filename \notin {None, <<>>}
    THEN download_path = download_dir \o <<"/">> \o download_filename
    ELSE download_path = None

\* C1 witness: all three attributes have been assigned and the last assignment, of
\* download_dir, left a path made of the directory and the name derived from the URL.
C1_Witness ==
    /\ op = "set_dir"
    /\ download_url = <<"u", "/", "f">>
    /\ download_dir = <<"b">>
    /\ download_path = <<"b", "/", "e", "n", "_", "f">>

\* C2 as stated: download(overwrite=False) on an asset whose file exists at
\* download_path returns True and issues no request; and a download(overwrite=False)
\* that follows a download that returned True returns True with no further request.
C2_Original ==
    [][ (op' = "download" /\ ~overwrite') =>
          /\ (is_downloaded => ret' = "True" /\ requests' = requests)
          /\ (op = "download" /\ ret = "True" => ret' = "True" /\ requests' = requests)
      ]_vars

\* C2 amended: download(overwrite=False) on an asset whose download URL is set and
\* whose file exists at download_path returns True and issues no request; and a
\* download(overwrite=False) that follows a download that returned True returns True
\* with no further request, so that the two calls issue at most the one request of
\* the first.
C2_Amended ==
    [][ (op' = "download" /\ ~overwrite') =>
          /\ (is_downloaded /\ ~Falsy(download_url)
                => ret' = "True" /\ requests' = requests /\ net' = "none")
          /\ (op = "download" /\ ret = "True"
                => ret' = "True" /\ requests' = requests /\ net' = "none")
      ]_vars

\* C2 witness: the one request of the run fetched the file, and the last call, a
\* download(overwrite=False), returned True without a request.
C2_Witness ==
    /\ op = "download" /\ ~overwrite
    /\ ret = "True" /\ net = "none"
    /\ requests = 1
    /\ OnDisk /\ files[download_path] = Body

\* C3: when the GET or the streaming of the body raises inside download(), the call
\* returns False and no file exists at download_path afterwards.
C3_FailureReturnsFalse ==
    (op = "download" /\ net \in {"get_raises", "stream_raises"})
        => (ret = "False" /\ ~is_downloaded)

\* C4: on an asset whose file is on disk, an assignment that changes download_dir or
\* download_filename to a different non-empty value moves the file: nothing is left
\* at the old path, the same content is at the new path, and download_path is the
\* new path.
C4_RelocationMoves ==
    [][ ( /\ OnDisk
          /\ \/ /\ op' = "set_dir"
                /\ download_dir' # download_dir /\ download_dir' # <<>>
             \/ /\ op' = "set_filename"
                /\ download_filename' # download_filename /\ download_filename' # <<>> )
        => ( /\ download_path \notin DOMAIN files'
             /\ download_path' = download_dir' \o <<"/">> \o download_filename'
             /\ download_path' # download_path
             /\ download_path' \in DOMAIN files'
             /\ files'[download_path'] = files[download_path] )
      ]_vars

\* C4 witness: the last call assigned download_dir, moved the file, and the file is
\* now in the new directory.
C4_Witness ==
    /\ op = "set_dir" /\ ret = "ok" /\ moved
    /\ download_dir = <<"b">>
    /\ OnDisk /\ files[download_path] = Body

\* C5: once the file is on disk, an assignment of download_dir or download_filename
\* that returns normally leaves the file at download_path (is_downloaded holds) and
\* leaves no copy at the path the asset referred to before.
C5_NeverOrphaned ==
    [][ (OnDisk /\ op' \in {"set_dir", "set_filename"} /\ ret' = "ok")
        => ( /\ is_downloaded'
             /\ download_path' \in DOMAIN files'
             /\ (download_path' # download_path => download_path \notin DOMAIN files') )
      ]_vars

\* C6: download() on an asset whose download directory or download URL is unset
\* raises the configuration error, issues no request and leaves the disk as it was.
C6_ConfigErrorBeforeIO ==
    [][ (op' = "download" /\ (Falsy(download_dir) \/ Falsy(download_url)))
        => ( /\ ret' = "ConfigError"
             /\ net' = "none"
             /\ requests' = requests
             /\ files' = files
             /\ dirs' = dirs )
      ]_vars

\* C6 witness: download() raised the configuration error on an asset that has a
\* directory and a file on disk but no URL.
C6_Witness ==
    /\ op = "download" /\ ret = "ConfigError"
    /\ Falsy(download_url) /\ ~Falsy(download_dir)
    /\ OnDisk

\* C21: assigning download_url to an asset that has a download_filename (set
\* explicitly or derived from an earlier URL) leaves download_filename,
\* download_path and the files on disk as they are.
C21_UrlKeepsFilename ==
    [][(op' = "set_url" /\ ~Falsy(download_filename))
         => /\ download_filename' = download_filename
            /\ download_path' = download_path
            /\ files' = files
            /\ dirs' = dirs]_vars

\* C21 witness: the file name f was set explicitly, the file is on disk under it,
\* and the URL u/f assigned last did not replace the name by the one derived from it
C21_Witness ==
    /\ op = "set_url"
    /\ download_url = <<"u", "/", "f">>
    /\ download_filename = <<"f">>
    /\ download_filename # derived_filename(download_url)
    /\ OnDisk

\* the last call was a download() whose transfer failed: it issued a request and
\* did not return True
Failed == op = "download" /\ net # "none" /\ ret # "True"

\* C22: after a failed download attempt that left no file, a call
\* download(overwrite=False) starts no transfer (only overwrite=True does).
C22_Original ==
    [][(Failed /\ ~is_downloaded /\ op' = "download" /\ ~overwrite')
         => requests' = requests /\ net' = "none"]_vars

\* C22 amended: after a failed download attempt, with directory and URL set, the
\* next call of download() starts a new transfer exactly when no file exists at
\* download_path or overwrite is True: download(overwrite=False) retries an asset
\* whose failed attempt left no file, and overwrite=True is needed only when a
\* file is there.
C22_Amended ==
    [][(Failed /\ op' = "download" /\ ~Falsy(download_dir) /\ ~Falsy(download_url))
         => IF ~is_downloaded \/ overwrite'
            THEN requests' = requests + 1 /\ net' # "none"
            ELSE requests' = requests /\ net' = "none"]_vars

\* C22 witness: two requests were issued and nothing is on disk: the first attempt
\* failed and left no file, and the last call, a download(overwrite=False), issued
\* the second request
C22_Witness ==
    /\ op = "download" /\ ~overwrite
    /\ net = "status_other" /\ ret = "False"
    /\ requests = 2
    /\ files = << >>

----------------------------------------------------------------------------
(* download_session.make_session: one GET through the mounted adapter.  The  *)
(* adapter runs the request under retry_policy: a response whose status is   *)
(* in status_forcelist, and a connection or read failure, use up one of the  *)
(* `total` retries; when none is left the call raises.                       *)

MAX_RETRIES == 17

\* Retry(total=MAX_RETRIES, ...)
retry_total_one_more == MAX_RETRIES + 1
retry_total == MAX_RETRIES

\* Retry(..., status_forcelist=[500, 502, 503, 504])
status_forcelist_client_errors == {404, 500, 502, 503, 504}
status_forcelist == {500, 502, 503, 504}

\* the statuses the server answers with
ServerStatuses == {200, 404, 500, 503}

\* Retry.increment() made the count of retries left negative
is_exhausted(total) == total < 0

\* the server answers the attempt with `status`
AttemptAnswered(status) ==
    /\ transport.out = "busy"
    /\ transport' =
         IF status \in status_forcelist
         THEN [transport EXCEPT !.attempts = @ + 1,
                                !.retryable = @ + 1,
                                !.seen = @ \cup {status},
                                !.status = status,
                                !.total = @ - 1,
                                !.out = IF is_exhausted(transport.total - 1)
                                        THEN "RetryError" ELSE "busy"]
         ELSE [transport EXCEPT !.attempts = @ + 1,
                                !.seen = @ \cup {status},
                                !.status = status,
                                !.out = "response"]
    /\ UNCHANGED <<assetVars, selectVars, catalogVars>>
    /\ LaterUnchangedExcept("transport")

\* the attempt ends in a connection reset or a read timeout
AttemptFails ==
    /\ transport.out = "busy"
    /\ transport' = [transport EXCEPT !.attempts = @ + 1,
                                      !.failures = @ + 1,
                                      !.total = @ - 1,
                                      !.out = IF is_exhausted(transport.total - 1)
                                              THEN "ConnectionError" ELSE "busy"]
    /\ UNCHANGED <<assetVars, selectVars, catalogVars>>
    /\ LaterUnchangedExcept("transport")

\* session.get(url) is called on a session of make_session()
InitTransport ==
    /\ AssetNew(None)
    /\ SelectIdle
    /\ CatalogIdle
    /\ LaterIdleExcept("transport")
    /\ transport = [attempts |-> 0, retryable |-> 0, failures |-> 0, seen |-> {},
                    status |-> 0, total |-> retry_total, out |-> "busy"]

NextTransport ==
    \/ \E status \in ServerStatuses : AttemptAnswered(status)
    \/ AttemptFails

SpecTransport == InitTransport /\ [][NextTransport]_vars

\* the call is one synchronous loop: it goes on until it returns or raises
SpecTransportLive == SpecTransport /\ WF_vars(NextTransport)

\* C12: a GET is retried only after a response with status 500, 502, 503 or 504 (or
\* a network failure): the call is still going on only while every response so far
\* had one of these statuses, a response with any other status is returned at once,
\* and the number of retries is the number of retryable responses and failures, so
\* that 503, 503, 503, 200 gives 3 retries and 404 gives none.
C12_RetriesOnlyOnForcelist ==
    /\ transport.out = "busy" => transport.seen \subseteq {500, 502, 503, 504}
    /\ transport.out = "response"
         => /\ transport.status \notin {500, 502, 503, 504}
            /\ (transport.seen \ {transport.status}) \subseteq {500, 502, 503, 504}
            /\ transport.attempts - 1 = transport.retryable + transport.failures
    /\ transport.seen \cap {200, 404} # {} => transport.out = "response"

\* C12 witness: the server answered 503 three times and then 200
C12_Witness ==
    /\ transport.out = "response"
    /\ transport.status = 200
    /\ transport.seen = {503, 200}
    /\ transport.retryable = 3
    /\ transport.failures = 0
    /\ transport.attempts = 4

\* C13: one GET makes at most 1 + MAX_RETRIES attempts; it raises exactly when all
\* of these attempts ended in a retryable status or a network failure, never
\* returning a response then; and the call always ends.
C13_BoundedAttempts ==
    /\ [](/\ transport.attempts <= 1 + 17
          /\ (transport.attempts = 1 + 17
                /\ transport.retryable + transport.failures = transport.attempts)
               => transport.out \in {"RetryError", "ConnectionError"}
          /\ transport.out \in {"RetryError", "ConnectionError"}
               => /\ transport.attempts = 1 + 17
                  /\ transport.retryable + transport.failures = transport.attempts)
    /\ <>(transport.out # "busy")

\* C13 witness: eighteen attempts, each ended in 503 or in a network failure, and the
\* call raised
C13_Witness ==
    /\ transport.out \in {"RetryError", "ConnectionError"}
    /\ transport.attempts = 18
    /\ transport.retryable > 0
    /\ transport.failures > 0

\* C26: a catalog page fetch goes through the retrying transport: for a page that
\* answers with a status of the forcelist, fetch_titles_from_page has sent more
\* requests than it was called, that is, it retried before it reported the page
\* as failed.
C26_PageFetchRetries ==
    \A p \in DOMAIN fetched_titles :
        ServerResponse(p).status_code \in status_forcelist
            => /\ fetched_titles[p] = Returned(<< >>, FALSE)
               /\ page_http.sent[p] > page_http.calls[p]

----------------------------------------------------------------------------
(* The chapter download batch: the loop of download_clean_speech_files over  *)
(* chapters_to_download and the loop of Book.download over self.chapters.    *)
(* Both call chapter.download() for one chapter after the other, with no     *)
(* handler around the call.  The asset variables hold the chapter the loop   *)
(* is at.                                                                    *)

BatchLoops == {"download_clean_speech_files", "Book.download"}

\* the directory the books and their chapters were given
BatchDir == <<"a">>

\* the download URLs a chapter of the batch can have: pages of two books, whose
\* files can have the same name
ChapterUrls == { <<"u", "/", "f">>, <<"u", "/", "g">>, <<"v", "/", "f">>, <<"v", "/", "h">> }

\* the chapters of a batch of n, in the order of the loop: their URLs all differ
ChapterUrlLists(n) ==
    { us \in [1..n -> ChapterUrls] : \A i, j \in 1..n : i # j => us[i] # us[j] }

\* the path of the file of the k-th chapter
ChapterPath(k) == update_full_path(BatchDir, derived_filename(batch.urls[k]))

\* how a call of download() ended that did not return
DownloadRaised(r) == r \in {"ConfigError", "TypeError"}

\* the for statement takes the next chapter, or the loop is over
BatchNext ==
    /\ batch.out = "next"
    /\ IF batch.attempted = batch.n
       THEN /\ batch' = [batch EXCEPT !.out = "done"]
            /\ UNCHANGED assetVars
       ELSE LET url == batch.urls[batch.attempted + 1]
            IN  /\ batch' = [batch EXCEPT !.out = "call"]
                /\ download_url' = url
                /\ download_dir' = BatchDir
                /\ download_filename' = derived_filename(url)
                /\ download_path' = update_full_path(BatchDir, derived_filename(url))
                /\ size' = NoInt
                /\ op' = "init"
                /\ ret' = "ok"
                /\ net' = "none"
                /\ moved' = FALSE
                /\ overwrite' = FALSE
                /\ UNCHANGED <<language_code, files, dirs, requests>>
    /\ UNCHANGED <<selectVars, catalogVars>>
    /\ LaterUnchangedExcept("batch")

\* chapter.download() on the chapter the loop is at; an exception leaves the loop
BatchDownload(outcome) ==
    /\ batch.out = "call"
    /\ DownloadCall(FALSE, outcome)
    /\ batch' = [batch EXCEPT !.attempted = @ + 1,
                              !.failed = @ \/ ret' # "True",
                              !.returned = Append(@, ret'),
                              !.owner = [q \in DOMAIN files' |->
                                           IF q \in DOMAIN files THEN batch.owner[q]
                                           ELSE batch.attempted + 1],
                              !.out = IF DownloadRaised(ret') THEN "raised" ELSE "next"]
    /\ UNCHANGED <<selectVars, catalogVars>>
    /\ LaterUnchangedExcept("batch")

\* the batch starts: the chapters were given the directory and their URLs, and
\* some of their files may be there from an earlier run; owner is the chapter
\* whose transfer wrote the file at a path, returned is what each call returned
InitBatch ==
    /\ SelectIdle
    /\ CatalogIdle
    /\ LaterIdleExcept("batch")
    /\ language_code \in LanguageCodes
    /\ \E loop \in BatchLoops, n \in 1..MaxRequests :
       \E us \in ChapterUrlLists(n), present \in SUBSET (1..n) :
       \E owner \in [{ update_full_path(BatchDir, derived_filename(us[k])) : k \in present }
                         -> present] :
          /\ \A q \in DOMAIN owner :
                update_full_path(BatchDir, derived_filename(us[owner[q]])) = q
          /\ batch = [loop |-> loop, n |-> n, urls |-> us, attempted |-> 0,
                      failed |-> FALSE, returned |-> << >>, owner |-> owner,
                      out |-> "next"]
    /\ download_url = None
    /\ download_dir = None
    /\ download_filename = None
    /\ download_path = None
    /\ size = NoInt
    /\ files = [q \in DOMAIN batch.owner |-> Body]
    /\ dirs = {BatchDir}
    /\ requests = 0
    /\ op = "init"
    /\ overwrite = FALSE
    /\ ret = "ok"
    /\ moved = FALSE
    /\ net = "none"

NextBatch ==
    \/ BatchNext
    \/ \E o \in NetOutcomes : BatchDownload(o)

SpecBatch == InitBatch /\ [][NextBatch]_vars

\* C14: a chapter whose download fails (transport error, streaming failure, non-200
\* response) does not end the batch: when the loop is left, download() has been
\* called on every chapter of the batch.
C14_BatchNotAborted ==
    batch.out \in {"done", "raised"} => batch.attempted = batch.n

\* the chapters the loop has constructed so far
BatchConstructed ==
    1..(IF batch.out = "call" THEN batch.attempted + 1 ELSE batch.attempted)

\* C25: chapters with different download URLs that share the download directory
\* have different download_paths, so that a chapter whose download() returned True
\* has at its path the file its own transfer wrote, never the file of another.
C25_DistinctUrlsDistinctFiles ==
    /\ \A i, j \in BatchConstructed : i # j => ChapterPath(i) # ChapterPath(j)
    /\ \A k \in 1..batch.attempted :
          batch.returned[k] = "True" =>
             /\ ChapterPath(k) \in DOMAIN batch.owner
             /\ batch.owner[ChapterPath(k)] = k

----------------------------------------------------------------------------
(* fetch_all_chapters and fetch_all_books_chapters                           *)

MaxBooks == 2

\* the numbers of data rows of a chapter table
RowCounts == 0..2

\* the numbers of columns of the first data row
ColumnCounts == {4, 5, 7}

\* what the request for a book's detail page gives.  metadata: whether the page has
\* the product-details list and the description that _fetch_missing_book_metadata
\* reads.  The data rows of a table all have the layout of the first.
DetailPages ==
    { [get |-> "ConnectionError", status_code |-> 0, metadata |-> "ok",
       table |-> FALSE, rows |-> 0, columns |-> 7] }
    \cup { [get |-> "response", status_code |-> 404, metadata |-> "ok",
            table |-> FALSE, rows |-> 0, columns |-> 7] }
    \cup { [get |-> "response", status_code |-> 200, metadata |-> m,
            table |-> FALSE, rows |-> 0, columns |-> 7] :
              m \in {"ok", "no_details", "no_description"} }
    \cup { [get |-> "response", status_code |-> 200, metadata |-> m,
            table |-> TRUE, rows |-> 0, columns |-> 7] :
              m \in {"ok", "no_details", "no_description"} }
    \cup { [get |-> "response", status_code |-> 200, metadata |-> m,
            table |-> TRUE, rows |-> r, columns |-> c] :
              m \in {"ok", "no_details", "no_description"},
              r \in RowCounts \ {0}, c \in ColumnCounts }

\* what a call of fetch_all_chapters gives: the list it returns, or the exception
ChaptersReturned(chapters_list) == [chapters |-> chapters_list, raises |-> "no"]
ChaptersRaised(exception) == [chapters |-> << >>, raises |-> exception]

\* _fetch_missing_book_metadata(book, scraper): the exception it ends in, "no" if none
fetch_missing_book_metadata(page) ==
    CASE page.metadata = "no_details" -> "AttributeError"
      [] page.metadata = "no_description" -> "AttributeError"
      [] OTHER -> "no"

\* the chapters scraped from the rows of a table in the 7-column or 4-column layout
ScrapeChapters(page, book) ==
    [k \in 1..page.rows |-> [book |-> book, number |-> k, layout |-> page.columns]]

\* fetch_all_chapters(book), the book's detail page being `page`
fetch_all_chapters(page, book) ==
    IF page.get # "response" THEN ChaptersRaised(page.get)
    ELSE IF page.status_code # 200 THEN ChaptersReturned(<< >>)
    ELSE IF fetch_missing_book_metadata(page) # "no"
         THEN ChaptersRaised(fetch_missing_book_metadata(page))
    ELSE IF ~page.table THEN ChaptersReturned(<< >>)
    ELSE IF page.rows = 0 THEN ChaptersReturned(<< >>)
    ELSE IF page.columns = 7 THEN ChaptersReturned(ScrapeChapters(page, book))
    ELSE IF page.columns = 4 THEN ChaptersReturned(ScrapeChapters(page, book))
    ELSE ChaptersReturned(<< >>)

\* the metadata of the Book object fetch_all_chapters was given, after the call:
\* "detail" when _fetch_missing_book_metadata has set duration, date, language and
\* proof listener on it, "catalog" when it holds what the catalog scan gave only
metadata_after_fetch(page) ==
    IF page.get = "response" /\ page.status_code = 200
       /\ fetch_missing_book_metadata(page) = "no"
    THEN "detail" ELSE "catalog"

\* A worker of the pool completes fetch_all_chapters(book).  The pool's workers are
\* processes: the task runs on the copy of the Book that was pickled to the worker
\* (worker_books), and the list it returns is sent back to the parent.
ChapterTask(book) ==
    /\ chapter_fetch.out = "map"
    /\ book \in chapter_fetch.pending
    /\ chapter_fetch' =
         [chapter_fetch EXCEPT
            !.pending = @ \ {book},
            !.order = Append(@, book),
            !.worker_books = [b \in DOMAIN @ \cup {book} |->
                                IF b = book
                                THEN metadata_after_fetch(chapter_fetch.pages[book])
                                ELSE @[b]],
            !.results = [b \in DOMAIN @ \cup {book} |->
                            IF b = book
                            THEN fetch_all_chapters(chapter_fetch.pages[book], book)
                            ELSE @[b]]]
    /\ UNCHANGED <<assetVars, selectVars, catalogVars>>
    /\ LaterUnchangedExcept("chapter_fetch")

\* a map() that hands the lists back in the order in which the tasks completed
lists_of_chapters_by_completion(b) ==
    chapter_fetch.results[chapter_fetch.order[b]].chapters

\* lists_of_chapters[b]: pool.map returns the results in the order of its inputs
lists_of_chapters(b) == chapter_fetch.results[b].chapters

\* pool.map returns the lists or re-raises a task's exception; lines 291-292 give
\* each book its list
AssignChapters ==
    /\ chapter_fetch.out = "map"
    /\ chapter_fetch.pending = {}
    /\ chapter_fetch' =
         IF \E b \in DOMAIN chapter_fetch.results : chapter_fetch.results[b].raises # "no"
         THEN [chapter_fetch EXCEPT !.out = "raised"]
         ELSE [chapter_fetch EXCEPT
                 !.out = "done",
                 !.chapters = [b \in DOMAIN chapter_fetch.pages |-> lists_of_chapters(b)]]
    /\ UNCHANGED <<assetVars, selectVars, catalogVars>>
    /\ LaterUnchangedExcept("chapter_fetch")

\* fetch_all_books_chapters(books) is called; no book has chapters yet
InitChapterFetch ==
    /\ AssetNew(None)
    /\ SelectIdle
    /\ CatalogIdle
    /\ LaterIdleExcept("chapter_fetch")
    /\ \E n \in 1..MaxBooks : \E pages \in [1..n -> DetailPages] :
          chapter_fetch = [pages |-> pages, pending |-> 1..n, order |-> << >>,
                           results |-> << >>, worker_books |-> << >>,
                           books |-> [b \in 1..n |-> "catalog"],
                           chapters |-> << >>, out |-> "map"]

NextChapterFetch ==
    \/ \E b \in 1..MaxBooks : ChapterTask(b)
    \/ AssignChapters

SpecChapterFetch == InitChapterFetch /\ [][NextChapterFetch]_vars

\* the detail pages of the four cases of C15
NoChaptersCase(page) ==
    /\ page.get = "response"
    /\ \/ page.status_code # 200
       \/ ~page.table
       \/ page.rows = 0
       \/ page.columns \notin {7, 4}

\* C15: fetch_all_chapters(book) returns an empty list and does not raise when the
\* detail page's status is not 200, the page has no chapter table, the table has no
\* data rows, or the first data row has neither 7 nor 4 columns; and such a book does
\* not change what any other book gets: once the scan is over, every book whose own
\* fetch returned has the chapters it returned.
C15_EmptyListNoRaise ==
    /\ \A b \in DOMAIN chapter_fetch.results :
          NoChaptersCase(chapter_fetch.pages[b])
             => chapter_fetch.results[b] = ChaptersReturned(<< >>)
    /\ chapter_fetch.out \in {"done", "raised"}
         => \A b, c \in DOMAIN chapter_fetch.pages :
               (/\ b # c
                /\ NoChaptersCase(chapter_fetch.pages[b])
                /\ chapter_fetch.results[c].raises = "no")
               => /\ c \in DOMAIN chapter_fetch.chapters
                  /\ chapter_fetch.chapters[c] = chapter_fetch.results[c].chapters

\* C23: fetch_all_books_chapters gives books[i].chapters the list produced by the
\* fetch task of books[i], for every i and every order in which the tasks complete,
\* and gives no book a list before all tasks of the batch have completed.
C23_PositionalJoinThenMerge ==
    /\ chapter_fetch.out = "done"
          => /\ DOMAIN chapter_fetch.chapters = DOMAIN chapter_fetch.pages
             /\ \A i \in DOMAIN chapter_fetch.pages :
                   /\ chapter_fetch.chapters[i] = chapter_fetch.results[i].chapters
                   /\ \A k \in 1..Len(chapter_fetch.chapters[i]) :
                         chapter_fetch.chapters[i][k].book = i
    /\ chapter_fetch.chapters # << >> => chapter_fetch.pending = {}
    /\ chapter_fetch.out = "map" => chapter_fetch.chapters = << >>

\* C23 witness: the task of the second book completed before the task of the first,
\* both books have chapters, and each was given its own
C23_Witness ==
    /\ chapter_fetch.out = "done"
    /\ chapter_fetch.order = <<2, 1>>
    /\ chapter_fetch.chapters[1] # << >>
    /\ chapter_fetch.chapters[2] # << >>
    /\ chapter_fetch.chapters[1] # chapter_fetch.chapters[2]

\* C27: after fetch_all_books_chapters has returned, every Book of the caller's
\* list carries the detail-page metadata that its fetch task extracted.
C27_MetadataReachesCaller ==
    chapter_fetch.out = "done"
       => \A b \in DOMAIN chapter_fetch.books :
             chapter_fetch.worker_books[b] = "detail" => chapter_fetch.books[b] = "detail"

----------------------------------------------------------------------------
(* download_internetarchive: fetch_total_n_items and fetch_items_in_query    *)

MaxItems == 10

DIRTY_CATEGORIES == <<"music", "instrumental", "78rpm", "ambient", "noise", "drone">>

\* CATEGORIES_WEIGHTS in thousandths: [0.117, 0.315, 0.076, 0.38, 0.085, 0.03]
WeightScale == 1000
CATEGORIES_WEIGHTS == <<117, 315, 76, 380, 85, 30>>

\* math.floor in the place of math.ceil
floor_weighted(w, num_items) == (w * num_items) \div WeightScale

\* math.ceil(w * num_items), w in thousandths
ceil_weighted(w, num_items) == (w * num_items + WeightScale - 1) \div WeightScale

\* how_many_of_each_cat at line 63
how_many_of_each_cat(num_items) ==
    [i \in 1..Len(CATEGORIES_WEIGHTS) |-> ceil_weighted(CATEGORIES_WEIGHTS[i], num_items)]

\* the for statement of line 66 takes the next (amount, category) pair and calls
\* fetch_items_in_query(query, amount), or the loop is over
StartQuery ==
    /\ item_fetch.out = "zip"
    /\ item_fetch' =
         IF item_fetch.cat = Len(DIRTY_CATEGORIES)
         THEN [item_fetch EXCEPT !.out = "done"]
         ELSE [item_fetch EXCEPT
                 !.cat = @ + 1,
                 !.asked = Append(@, item_fetch.amounts[item_fetch.cat + 1]),
                 !.items = 0,
                 !.out = "query"]
    /\ UNCHANGED <<assetVars, selectVars, catalogVars>>
    /\ LaterUnchangedExcept("item_fetch")

\* fetch_items_in_query returns: total_items is extended by its items
QueryReturns ==
    [item_fetch EXCEPT !.total_items = @ \o [k \in 1..item_fetch.items |->
                                               <<DIRTY_CATEGORIES[item_fetch.cat], k>>],
                       !.out = "zip"]

\* the search gives one more result: lines 38-45
SearchResult(resolved) ==
    /\ item_fetch.out = "query"
    /\ item_fetch' =
         IF item_fetch.items < item_fetch.asked[item_fetch.cat]
         THEN IF resolved THEN [item_fetch EXCEPT !.items = @ + 1] ELSE item_fetch
         ELSE QueryReturns
    /\ UNCHANGED <<assetVars, selectVars, catalogVars>>
    /\ LaterUnchangedExcept("item_fetch")

\* the search has no more results
SearchExhausted ==
    /\ item_fetch.out = "query"
    /\ item_fetch' = QueryReturns
    /\ UNCHANGED <<assetVars, selectVars, catalogVars>>
    /\ LaterUnchangedExcept("item_fetch")

\* fetch_total_n_items(num_items) is called: lines 58-65
InitItemFetch ==
    /\ AssetNew(None)
    /\ SelectIdle
    /\ CatalogIdle
    /\ LaterIdleExcept("item_fetch")
    /\ \E num_items \in 0..MaxItems :
          item_fetch = [num_items |-> num_items,
                        amounts |-> how_many_of_each_cat(num_items),
                        cat |-> 0, asked |-> << >>, items |-> 0,
                        total_items |-> << >>, out |-> "zip"]

NextItemFetch ==
    \/ StartQuery
    \/ \E resolved \in BOOLEAN : SearchResult(resolved)
    \/ SearchExhausted

SpecItemFetch == InitItemFetch /\ [][NextItemFetch]_vars

\* the number of items of total_items that came from the i-th category
AcceptedOf(i) ==
    Cardinality({ k \in 1..Len(item_fetch.total_items) :
                    item_fetch.total_items[k][1] = DIRTY_CATEGORIES[i] })

RECURSIVE SumSeq(_)
SumSeq(q) == IF q = << >> THEN 0 ELSE Head(q) + SumSeq(Tail(q))

----------------------------------------------------------------------------
(* download_internetarchive.download_n_files, from the point where            *)
(* fetch_total_n_items has returned `items`                                  *)

MaxNoiseItems == 2

VALID_EXTENSIONS ==
    << <<".", "m", "p", "3">>, <<".", "m", "p", "4">>, <<".", "o", "g", "g">>,
       <<".", "w", "a", "v">>, <<".", "a", "a", "c">>, <<".", "m", "4", "b">> >>

\* the files an item may list: name and size
ItemFiles ==
    { [name |-> <<"a", ".", "m", "p", "3">>, size |-> 4],
      [name |-> <<"b", ".", "t", "x", "t">>, size |-> 2],
      [name |-> <<"c", ".", "m", "p", "3", ".", "t", "x", "t">>, size |-> 1] }

\* item.files of the items a search may give: up to two files
ItemFileLists ==
    { << >> } \cup { <<f>> : f \in ItemFiles } \cup { <<f, g>> : f, g \in ItemFiles }

\* `sub in s` for two strings
IsSubstring(sub, s) ==
    \E i \in 1..(Len(s) - Len(sub) + 1) : SubSeq(s, i, i + Len(sub) - 1) = sub

\* s.endswith(suffix)
EndsWith(s, suffix) ==
    Len(s) >= Len(suffix) /\ SubSeq(s, Len(s) - Len(suffix) + 1, Len(s)) = suffix

\* lines 80-82: some extension of VALID_EXTENSIONS is in the file's name
has_valid_extension(file) ==
    \E k \in 1..Len(VALID_EXTENSIONS) : IsSubstring(VALID_EXTENSIONS[k], file.name)

\* lines 77-89: the index in item.files of the file the loops stop at, 0 when
\* file_name stays None
selected_file(item_files) ==
    IF \E k \in 1..Len(item_files) : has_valid_extension(item_files[k])
    THEN CHOOSE k \in 1..Len(item_files) :
            /\ has_valid_extension(item_files[k])
            /\ \A j \in 1..(k - 1) : ~has_valid_extension(item_files[j])
    ELSE 0

\* what item.download(...) may do
ItemDownloadOutcomes == {"downloaded", "raises_partial_file", "raises_no_file"}

\* one iteration of the loop of line 76 on the next item
NoiseItem(outcome) ==
    /\ noise.out = "loop"
    /\ noise.i < Len(noise.items)
    /\ LET item == noise.items[noise.i + 1]
           k == selected_file(item)
       IN  IF k = 0
           THEN noise' = [noise EXCEPT !.i = @ + 1]
           ELSE LET file_name == item[k].name
                    file_size == item[k].size
                    issued == Append(noise.downloads, <<noise.i + 1, file_name>>)
                IN  CASE outcome = "downloaded" ->
                           noise' = [noise EXCEPT
                                       !.i = @ + 1,
                                       !.downloads = issued,
                                       !.dest = @ \cup {file_name},
                                       !.total_downloaded_size = @ + file_size,
                                       !.succeeded_size = @ + file_size]
                      [] OTHER ->
                           \* the except clause: lines 96-100
                           LET written == IF outcome = "raises_partial_file"
                                          THEN noise.dest \cup {file_name} ELSE noise.dest
                           IN  IF noise.sizes = "str"
                               THEN \* int -= str
                                    noise' = [noise EXCEPT !.downloads = issued,
                                                           !.dest = written,
                                                           !.out = "TypeError"]
                               ELSE IF file_name \notin written
                               THEN \* os.remove of a file that is not there
                                    noise' = [noise EXCEPT
                                                !.downloads = issued,
                                                !.total_downloaded_size = @ - file_size,
                                                !.out = "FileNotFoundError"]
                               ELSE noise' = [noise EXCEPT
                                                !.i = @ + 1,
                                                !.downloads = issued,
                                                !.dest = written \ {file_name},
                                                !.total_downloaded_size = @ - file_size]
    /\ UNCHANGED <<assetVars, selectVars, catalogVars>>
    /\ LaterUnchangedExcept("noise")

\* line 102: return total_downloaded_size
NoiseReturn ==
    /\ noise.out = "loop"
    /\ noise.i = Len(noise.items)
    /\ noise' = [noise EXCEPT !.out = "returned"]
    /\ UNCHANGED <<assetVars, selectVars, catalogVars>>
    /\ LaterUnchangedExcept("noise")

\* fetch_total_n_items has returned the items; the metadata gives the sizes either
\* as ints or as strings of digits
InitNoise ==
    /\ AssetNew(None)
    /\ SelectIdle
    /\ CatalogIdle
    /\ LaterIdleExcept("noise")
    /\ \E n \in 0..MaxNoiseItems : \E items \in [1..n -> ItemFileLists] :
       \E sizes \in {"int", "str"} :
          noise = [items |-> items, sizes |-> sizes, i |-> 0,
                   total_downloaded_size |-> 0, succeeded_size |-> 0,
                   dest |-> {}, downloads |-> << >>, out |-> "loop"]

NextNoise ==
    \/ \E o \in ItemDownloadOutcomes : NoiseItem(o)
    \/ NoiseReturn

SpecNoise == InitNoise /\ [][NextNoise]_vars

\* the files of an item whose name ends in an accepted audio extension
AudioFileIndexes(item_files) ==
    { k \in 1..Len(item_files) :
        \E x \in 1..Len(VALID_EXTENSIONS) : EndsWith(item_files[k].name, VALID_EXTENSIONS[x]) }

\* C17: at most one download is issued per item; the file downloaded is the first
\* file of the item's list whose name ends in an accepted audio extension; an item
\* with no such file is skipped.
C17_FirstAudioFileOnly ==
    /\ \A a, b \in 1..Len(noise.downloads) :
          noise.downloads[a][1] = noise.downloads[b][1] => a = b
    /\ \A a \in 1..Len(noise.downloads) :
          LET item == noise.items[noise.downloads[a][1]]
          IN  /\ AudioFileIndexes(item) # {}
              /\ \E k \in AudioFileIndexes(item) :
                    /\ \A j \in AudioFileIndexes(item) : k <= j
                    /\ item[k].name = noise.downloads[a][2]

\* C18: the running total counts successful downloads only: after every item, and
\* when it is returned, it is the sum of the sizes of the files downloaded
\* successfully, and it is never negative.
C18_TotalIsSuccessfulBytes ==
    /\ noise.total_downloaded_size = noise.succeeded_size
    /\ noise.total_downloaded_size >= 0

\* C19: a download that raises does not end the batch: download_n_files never ends
\* in an exception, and when it returns every item has been gone through.
C19_FailureDoesNotAbort ==
    /\ noise.out \in {"loop", "returned"}
    /\ noise.out = "returned" => noise.i = Len(noise.items)

----------------------------------------------------------------------------
(* The language setter of AudioBookFile                                      *)

\* LANGUAGE_TO_CODE: the entries of the dict
LANGUAGE_TO_CODE ==
    {
      [language |-> <<"e", "n", "g", "l", "i", "s", "h">>,
       code |-> <<"e", "n">>],
      [language |-> <<"s", "p", "a", "n", "i", "s", "h">>,
       code |-> <<"e", "s">>],
      [language |-> <<"b", "r", "a", "z", "i", "l", "i", "a", "n", " ", "p", "o", "r", "t", "u", "g", "u", "e", "s", "e">>,
       code |-> <<"p", "t">>],
      [language |-> <<"p", "o", "r", "t", "u", "g", "u", "e", "s", "e">>,
       code |-> <<"p", "t">>],
      [language |-> <<"c", "h", "i", "n", "e", "s", "e">>,
       code |-> <<"z", "h">>],
      [language |-> <<"d", "u", "t", "c", "h">>,
       code |-> <<"n", "l">>],
      [language |-> <<"e", "s", "p", "e", "r", "a", "n", "t", "o">>,
       code |-> <<"e", "o">>],
      [language |-> <<"f", "i", "l", "i", "p", "i", "n", "o">>,
       code |-> <<"t", "g">>],
      [language |-> <<"g", "e", "r", "m", "a", "n">>,
       code |-> <<"d", "e">>],
      [language |-> <<"j", "a", "p", "a", "n", "e", "s", "e">>,
       code |-> <<"j", "p">>],
      [language |-> <<"m", "a", "l", "a", "y">>,
       code |-> <<"m", "s">>],
      [language |-> <<"p", "o", "l", "i", "s", "h">>,
       code |-> <<"p", "l">>],
      [language |-> <<"a", "c", "e", "h", "n", "e", "s", "e">>,
       code |-> <<"a", "c", "e">>],
      [language |-> <<"b", "a", "l", "i", "n", "e", "s", "e">>,
       code |-> <<"b", "a", "n">>],
      [language |-> <<"b", "u", "g", "i", "n", "e", "s", "e">>,
       code |-> <<"b", "u", "g">>],
      [language |-> <<"b", "u", "l", "g", "a", "r", "i", "a", "n">>,
       code |-> <<"b", "g">>],
      [language |-> <<"c", "z", "e", "c", "h">>,
       code |-> <<"c", "s">>],
      [language |-> <<"f", "a", "r", "o", "e", "s", "e">>,
       code |-> <<"f", "o">>],
      [language |-> <<"w", "e", "s", "t", "e", "r", "n", " ", "f", "r", "i", "s", "i", "a", "n">>,
       code |-> <<"f", "y">>],
      [language |-> <<"g", "r", "e", "e", "k">>,
       code |-> <<"e", "l">>],
      [language |-> <<"h", "e", "b", "r", "e", "w">>,
       code |-> <<"h", "e">>],
      [language |-> <<"i", "n", "d", "o", "n", "e", "s", "i", "a", "n">>,
       code |-> <<"i", "d">>],
      [language |-> <<"j", "a", "v", "a", "n", "e", "s", "e">>,
       code |-> <<"j", "v">>],
      [language |-> <<"l", "a", "t", "v", "i", "a", "n">>,
       code |-> <<"l", "v">>],
      [language |-> <<"l", "a", "t", "v", "i", "a", "n", " ", "(", "l", "a", "t", "v", "i", "a", ")">>,
       code |-> <<"l", "v">>],
      [language |-> <<"l", "u", "x", "e", "m", "b", "o", "u", "r", "g", "i", "s", "h">>,
       code |-> <<"l", "b">>],
      [language |-> <<"m", "i", "n", "a", "n", "g", "k", "a", "b", "a", "u">>,
       code |-> <<"m", "i", "n">>],
      [language |-> <<"n", "y", "n", "o", "r", "s", "k">>,
       code |-> <<"n", "n">>],
      [language |-> <<"o", "c", "c", "i", "t", "a", "n">>,
       code |-> <<"o", "c">>],
      [language |-> <<"o", "c", "c", "i", "t", "a", "n", " ", "(", "l", "a", "n", "g", "u", "e", "d", "o", "c", "i", "e", "n", ")">>,
       code |-> <<"o", "c">>],
      [language |-> <<"o", "c", "c", "i", "t", "a", "n", " ", "l", "a", "n", "g", "u", "e", "d", "o", "c", "i", "e", "n">>,
       code |-> <<"o", "c">>],
      [language |-> <<"l", "a", "n", "g", "u", "e", "d", "o", "c", "i", "e", "n">>,
       code |-> <<"o", "c">>],
      [language |-> <<"o", "r", "i", "y", "a">>,
       code |-> <<"o", "r">>],
      [language |-> <<"p", "a", "m", "p", "a", "n", "g", "o">>,
       code |-> <<"p", "a", "m">>],
      [language |-> <<"s", "l", "o", "v", "a", "k">>,
       code |-> <<"s", "k">>],
      [language |-> <<"s", "w", "e", "d", "i", "s", "h">>,
       code |-> <<"s", "v">>],
      [language |-> <<"a", "n", "c", "i", "e", "n", "t", " ", "g", "r", "e", "e", "k">>,
       code |-> <<"e", "l">>],
      [language |-> <<"c", "a", "n", "t", "o", "n", "e", "s", "e", " ", "c", "h", "i", "n", "e", "s", "e">>,
       code |-> <<"z", "h">>],
      [language |-> <<"a", "l", "b", "a", "n", "i", "a", "n">>,
       code |-> <<"s", "q">>],
      [language |-> <<"a", "r", "a", "g", "o", "n", "e", "s", "e">>,
       code |-> <<"a", "n">>],
      [language |-> <<"a", "r", "m", "e", "n", "i", "a", "n">>,
       code |-> <<"h", "y">>],
      [language |-> <<"i", "g", "b", "o">>,
       code |-> <<"i", "g">>],
      [language |-> <<"i", "c", "e", "l", "a", "n", "d", "i", "c">>,
       code |-> <<"i", "s">>],
      [language |-> <<"i", "d", "o">>,
       code |-> <<"i", "o">>],
      [language |-> <<"n", "u", "o", "s", "u">>,
       code |-> <<"i", "i">>],
      [language |-> <<"s", "i", "c", "h", "u", "a", "n", " ", "y", "i">>,
       code |-> <<"i", "i">>],
      [language |-> <<"a", "r", "a", "b", "i", "c">>,
       code |-> <<"a", "r">>],
      [language |-> <<"c", "e", "b", "u", "a", "n", "o">>,
       code |-> <<"c", "e", "b">>],
      [language |-> <<"b", "i", "s", "a", "y", "a">>,
       code |-> <<"c", "e", "b">>],
      [language |-> <<"c", "h", "u", "r", "c", "h", " ", "s", "l", "a", "v", "o", "n", "i", "c">>,
       code |-> <<"c", "u">>],
      [language |-> <<"s", "l", "a", "v", "o", "n", "i", "c">>,
       code |-> <<"c", "u">>],
      [language |-> <<"o", "l", "d", " ", "b", "u", "l", "g", "a", "r", "i", "a", "n">>,
       code |-> <<"c", "u">>],
      [language |-> <<"c", "h", "u", "r", "c", "h", " ", "s", "l", "a", "v", "i", "c">>,
       code |-> <<"c", "u">>],
      [language |-> <<"o", "l", "d", " ", "s", "l", "a", "v", "o", "n", "i", "c">>,
       code |-> <<"c", "u">>],
      [language |-> <<"o", "l", "d", " ", "c", "h", "u", "r", "c", "h", " ", "s", "l", "a", "v", "o", "n", "i", "c">>,
       code |-> <<"c", "u">>],
      [language |-> <<"c", "h", "u", "v", "a", "s", "h">>,
       code |-> <<"c", "v">>],
      [language |-> <<"c", "o", "r", "n", "i", "s", "h">>,
       code |-> <<"k", "w">>],
      [language |-> <<"c", "r", "o", "a", "t", "i", "a", "n">>,
       code |-> <<"h", "r">>],
      [language |-> <<"l", "u", "o">>,
       code |-> <<"l", "u", "o">>],
      [language |-> <<"d", "h", "o", "l", "u", "o">>,
       code |-> <<"l", "u", "o">>],
      [language |-> <<"g", "a", "l", "i", "c", "i", "a", "n">>,
       code |-> <<"g", "l">>],
      [language |-> <<"i", "r", "i", "s", "h">>,
       code |-> <<"g", "a">>],
      [language |-> <<"t", "a", "g", "a", "l", "o", "g">>,
       code |-> <<"t", "l">>],
      [language |-> <<"w", "i", "k", "a", "n", "g", " ", "t", "a", "g", "a", "l", "o", "g">>,
       code |-> <<"t", "l">>],
      [language |-> <<"y", "i", "d", "d", "i", "s", "h">>,
       code |-> <<"y", "i">>],
      [language |-> <<"m", "u", "l", "t", "i", "l", "i", "n", "g", "u", "a", "l">>,
       code |-> <<"m", "u", "l", "t", "i">>],
      [language |-> <<"m", "a", "o", "r", "i">>,
       code |-> <<"m", "i">>],
      [language |-> <<"d", "a", "n", "i", "s", "h">>,
       code |-> <<"d", "a">>],
      [language |-> <<"r", "o", "m", "a", "n", "i", "a", "n">>,
       code |-> <<"r", "o">>]
    }

UpperLetters == <<"A", "B", "C", "D", "E", "F", "G", "H", "I", "J", "K", "L", "M", "N", "O", "P", "Q", "R", "S", "T", "U", "V", "W", "X", "Y", "Z">>
LowerLetters == <<"a", "b", "c", "d", "e", "f", "g", "h", "i", "j", "k", "l", "m", "n", "o", "p", "q", "r", "s", "t", "u", "v", "w", "x", "y", "z">>

\* str.lower() and str.upper() on one character
LowerChar(c) ==
    IF \E i \in 1..Len(UpperLetters) : UpperLetters[i] = c
    THEN LowerLetters[CHOOSE i \in 1..Len(UpperLetters) : UpperLetters[i] = c]
    ELSE c
UpperChar(c) ==
    IF \E i \in 1..Len(LowerLetters) : LowerLetters[i] = c
    THEN UpperLetters[CHOOSE i \in 1..Len(LowerLetters) : LowerLetters[i] = c]
    ELSE c

\* str.lower(), str.upper(), str.title()
Lower(s) == [i \in 1..Len(s) |-> LowerChar(s[i])]
Upper(s) == [i \in 1..Len(s) |-> UpperChar(s[i])]
Title(s) == [i \in 1..Len(s) |-> IF i = 1 \/ s[i - 1] \in {" ", "("}
                                 THEN UpperChar(s[i]) ELSE s[i]]

\* language in LANGUAGE_TO_CODE, LANGUAGE_TO_CODE[language]
InLanguageTable(language) == \E entry \in LANGUAGE_TO_CODE : entry.language = language
LanguageCodeOf(language) ==
    (CHOOSE entry \in LANGUAGE_TO_CODE : entry.language = language).code

\* language[:2]
FirstTwo(s) == SubSeq(s, 1, IF Len(s) < 2 THEN Len(s) ELSE 2)

\* a setter that forgets lower()
language_setter_case_sensitive(text_language) ==
    LET language == Strip(text_language)
    IN  IF InLanguageTable(language) THEN LanguageCodeOf(language) ELSE FirstTwo(language)

\* the language setter: the value it stores in _language_code
language_setter(text_language) ==
    LET language == Lower(Strip(text_language))
    IN  IF InLanguageTable(language) THEN LanguageCodeOf(language) ELSE FirstTwo(language)

\* language names that are not in the table
UnknownLanguages ==
    { <<"k", "l", "i", "n", "g", "o", "n">>, <<"x">>, << >>,
      <<"o", "l", "d", " ", "n", "o", "r", "s", "e">> }

\* the texts given to the setter: every name of the table and the names above, as
\* they are, in title case, in upper case, and in title case between spaces
LanguageInputs ==
    UNION { { name, Title(name), Upper(name), <<" ">> \o Title(name) \o <<" ", " ">> } :
              name \in { entry.language : entry \in LANGUAGE_TO_CODE } \cup UnknownLanguages }

\* asset.language = text_language
SetLanguage(text_language) ==
    /\ lang_input.out \in {"new", "set"}
    /\ language_code' = language_setter(text_language)
    /\ lang_input' = [text |-> text_language, out |-> "set"]
    /\ op' = "set_language"
    /\ ret' = "ok"
    /\ moved' = FALSE
    /\ overwrite' = FALSE
    /\ net' = "none"
    /\ UNCHANGED <<download_url, download_dir, download_filename, download_path, size,
                   files, dirs, requests>>
    /\ UNCHANGED <<selectVars, catalogVars>>
    /\ LaterUnchangedExcept("lang_input")

InitLanguage ==
    /\ AssetNew(None)
    /\ SelectIdle
    /\ CatalogIdle
    /\ LaterIdleExcept("lang_input")
    /\ lang_input = [text |-> << >>, out |-> "new"]

NextLanguageSet == \E text \in LanguageInputs : SetLanguage(text)

SpecLanguage == InitLanguage /\ [][NextLanguageSet]_vars

\* C20: whatever string the language setter is given, and whatever was set before,
\* the stored code is decided by the trimmed, lower-cased name alone: the code of the
\* alias table when the name is in it, the first two characters of the name if not.
\* "Brazilian Portuguese" and "portuguese" give "pt", "Klingon" gives "kl".
C20_LanguageNormalised ==
    lang_input.out = "set" =>
        LET name == Lower(Strip(lang_input.text))
        IN  /\ ret = "ok"
            /\ \A entry \in LANGUAGE_TO_CODE :
                  entry.language = name => language_code = entry.code
            /\ (\A entry \in LANGUAGE_TO_CODE : entry.language # name)
                  => language_code = SubSeq(name, 1, IF Len(name) < 2 THEN Len(name) ELSE 2)
            /\ lang_input.text = <<"B", "r", "a", "z", "i", "l", "i", "a", "n", " ", "P", "o", "r", "t", "u", "g", "u", "e", "s", "e">>
                  => language_code = <<"p", "t">>
            /\ lang_input.text = <<"p", "o", "r", "t", "u", "g", "u", "e", "s", "e">>
                  => language_code = <<"p", "t">>
            /\ lang_input.text = <<"K", "l", "i", "n", "g", "o", "n">>
                  => language_code = <<"k", "l">>

\* C20 witness: the setter was given " Brazilian Portuguese  " and stored "pt"
C20_Witness ==
    /\ lang_input.out = "set"
    /\ lang_input.text = <<" ", "B", "r", "a", "z", "i", "l", "i", "a", "n", " ", "P", "o", "r", "t", "u", "g", "u", "e", "s", "e", " ", " ">>
    /\ language_code = <<"p", "t">>

----------------------------------------------------------------------------
(* Tasks that assign download_dir at the same time, each to an asset of its  *)
(* own that has no file yet (Chapter.__init__ in the workers of the pool).   *)
(* The setter's call of _ensure_dir_exists is two steps on the shared file   *)
(* system: the test Path(directory).exists() and then os.mkdir(directory).   *)

MaxTasks == 2

\* the directories the tasks assign
TaskDirs == { <<"a">>, <<" ", "b">> }

\* line 210: `if not Path(directory).exists()`
TaskChecks(t) ==
    /\ dir_tasks.out = "run"
    /\ t \in DOMAIN dir_tasks.pc
    /\ dir_tasks.pc[t] = "exists"
    /\ dir_tasks' = [dir_tasks EXCEPT
                       !.pc[t] = IF PathExists(Strip(dir_tasks.new_dir[t]), files, dirs)
                                 THEN "assign" ELSE "mkdir"]
    /\ UNCHANGED <<assetVars, selectVars, catalogVars>>
    /\ LaterUnchangedExcept("dir_tasks")

\* line 211: os.mkdir(directory), which raises when the directory is there
TaskMkdir(t) ==
    /\ dir_tasks.out = "run"
    /\ t \in DOMAIN dir_tasks.pc
    /\ dir_tasks.pc[t] = "mkdir"
    /\ IF PathExists(Strip(dir_tasks.new_dir[t]), files, dirs)
       THEN /\ dir_tasks' = [dir_tasks EXCEPT !.pc[t] = "FileExistsError"]
            /\ UNCHANGED dirs
       ELSE /\ dir_tasks' = [dir_tasks EXCEPT !.pc[t] = "assign"]
            /\ dirs' = dirs \cup {Strip(dir_tasks.new_dir[t])}
    /\ UNCHANGED <<language_code, download_url, download_dir, download_filename,
                   download_path, size, files, requests, op, overwrite, ret, moved, net>>
    /\ UNCHANGED <<selectVars, catalogVars>>
    /\ LaterUnchangedExcept("dir_tasks")

\* lines 97-101: the asset has no file to move; the directory is stored
TaskAssigns(t) ==
    /\ dir_tasks.out = "run"
    /\ t \in DOMAIN dir_tasks.pc
    /\ dir_tasks.pc[t] = "assign"
    /\ dir_tasks' = [dir_tasks EXCEPT !.pc[t] = "done",
                                      !.download_dir[t] = Strip(dir_tasks.new_dir[t])]
    /\ UNCHANGED <<assetVars, selectVars, catalogVars>>
    /\ LaterUnchangedExcept("dir_tasks")

\* the tasks start; the directories they assign may or may not exist
InitDirTasks ==
    /\ SelectIdle
    /\ CatalogIdle
    /\ LaterIdleExcept("dir_tasks")
    /\ \E n \in 2..MaxTasks : \E new_dir \in [1..n -> TaskDirs] :
          dir_tasks = [new_dir |-> new_dir,
                       pc |-> [t \in 1..n |-> "exists"],
                       download_dir |-> [t \in 1..n |-> None],
                       out |-> "run"]
    /\ language_code = None
    /\ download_url = None
    /\ download_dir = None
    /\ download_filename = None
    /\ download_path = None
    /\ size = NoInt
    /\ files = << >>
    /\ dirs \in SUBSET { Strip(d) : d \in TaskDirs }
    /\ requests = 0
    /\ op = "init"
    /\ overwrite = FALSE
    /\ ret = "ok"
    /\ moved = FALSE
    /\ net = "none"

NextDirTasks ==
    \/ \E t \in 1..MaxTasks : TaskChecks(t)
    \/ \E t \in 1..MaxTasks : TaskMkdir(t)
    \/ \E t \in 1..MaxTasks : TaskAssigns(t)

SpecDirTasks == InitDirTasks /\ [][NextDirTasks]_vars

\* C24: when tasks set download_dir to the same directory at the same time, in
\* every interleaving no assignment ends in an error, and once the assignments are
\* complete the directory exists.
C24_ConcurrentMkdirIdempotent ==
    \A t \in DOMAIN dir_tasks.pc :
        /\ dir_tasks.pc[t] # "FileExistsError"
        /\ dir_tasks.pc[t] = "done" => Strip(dir_tasks.new_dir[t]) \in dirs

----------------------------------------------------------------------------
(* Chapter.download(overwrite=True), checked under Spec *)

\* the responses with status 200
Status200 == { "ok_200", "no_length" }

\* C30: download(overwrite=True) returns True only if this call received a 200
\* response and wrote the body to download_path; when the status is not 200 it
\* returns False, also when a file of an earlier download is at download_path.
\* Stated for an asset whose download_path is set.
C30_OverwriteTrueOnlyOn200 ==
    (op = "download" /\ overwrite /\ download_path # None)
        => /\ ret = "True" => /\ net \in Status200
                              /\ download_path \in DOMAIN files
                              /\ files[download_path] = Body
           /\ net = "status_other" => ret = "False"

----------------------------------------------------------------------------
(* download_clean_speech_files from the catalog scan to the selection       *)
(* (src/generate_dataset.py, lines 23-54): fetch_all_books, then             *)
(* fetch_all_books_chapters on the books it gave, then the grouping and the  *)
(* selection over the chapters of these books.  The page tasks and the       *)
(* chapter tasks complete in any order.                                      *)

\* what the catalog endpoint answers for a page in these runs
PipelineResponses ==
    { [status_code |-> 200, text |-> BooksText],
      [status_code |-> 200, text |-> EmptyCatalogText],
      [status_code |-> 503, text |-> GarbageText] }

\* the detail pages of the books in these runs, with the reader and the language
\* code of each row of the chapter table
PipelineDetails ==
    { [page |-> [get |-> "response", status_code |-> 404, metadata |-> "ok",
                 table |-> FALSE, rows |-> 0, columns |-> 7],
       rows |-> << >>],
      [page |-> [get |-> "response", status_code |-> 200, metadata |-> "no_details",
                 table |-> TRUE, rows |-> 1, columns |-> 7],
       rows |-> << [reader_name |-> "r1", language_code |-> "en"] >>],
      [page |-> [get |-> "response", status_code |-> 200, metadata |-> "ok",
                 table |-> TRUE, rows |-> 1, columns |-> 7],
       rows |-> << [reader_name |-> "r1", language_code |-> "en"] >>],
      [page |-> [get |-> "response", status_code |-> 200, metadata |-> "ok",
                 table |-> TRUE, rows |-> 2, columns |-> 4],
       rows |-> << [reader_name |-> "r2", language_code |-> "es"],
                   [reader_name |-> "r1", language_code |-> "es"] >>] }

\* The pages outside range(start_page, end_page) are never requested; what they
\* hold is the same in every run.
UnrequestedResponse == [status_code |-> 200, text |-> BooksText]
UnrequestedDetail ==
    [page |-> [get |-> "response", status_code |-> 404, metadata |-> "ok",
               table |-> FALSE, rows |-> 0, columns |-> 7],
     rows |-> << >>]

\* the Chapter that the row `number` of the detail page `detail` gives
ChapterOfRow(detail, number) ==
    [reader_name |-> detail.rows[number].reader_name,
     language_code |-> detail.rows[number].language_code]

\* lines 31-32: the chapters of the books, book after book, numbered as visited
RECURSIVE ChaptersOfBooks(_, _)
ChaptersOfBooks(b, lists) ==
    IF b > Len(all_books) THEN << >>
    ELSE [k \in 1..Len(lists[b]) |->
            ChapterOfRow(pipeline.site[all_books[lists[b][k].book].title],
                         lists[b][k].number)]
         \o ChaptersOfBooks(b + 1, lists)

\* the chapters with the position at which the grouping loops visit them
Numbered(chs) ==
    [i \in 1..Len(chs) |-> [n |-> i, reader_name |-> chs[i].reader_name,
                             language_code |-> chs[i].language_code]]

\* line 26: fetch_all_books has returned, fetch_all_books_chapters(books) starts
PipelineFetchChapters ==
    /\ pipeline.out = "catalog"
    /\ cat_pc = "done"
    /\ pipeline' = [pipeline EXCEPT !.out = "chapters"]
    /\ chapter_fetch' =
         [pages |-> [b \in 1..Len(all_books) |-> pipeline.site[all_books[b].title].page],
          pending |-> 1..Len(all_books), order |-> << >>, results |-> << >>,
          worker_books |-> << >>, books |-> [b \in 1..Len(all_books) |-> "catalog"],
          chapters |-> << >>, out |-> "map"]
    /\ UNCHANGED <<assetVars, selectVars, catalogVars>>
    /\ UNCHANGED <<transport, batch, item_fetch, noise, lang_input, dir_tasks, page_http,
                   size_input>>

\* lines 27-30: fetch_all_books_chapters has returned, the grouping loops start
PipelineGroup ==
    /\ pipeline.out = "chapters"
    /\ chapter_fetch.out = "done"
    /\ pipeline' = [pipeline EXCEPT !.out = "select"]
    /\ chapters' = Numbered(ChaptersOfBooks(1, chapter_fetch.chapters))
    /\ sel_pc' = "group"
    /\ UNCHANGED <<NUM_LANGUAGES, CHAPTERS_PER_LANGUAGE, language_keys, languages,
                   chapter_count, readers, chapters_to_download, idx, chaps_per_lang, pos>>
    /\ UNCHANGED <<assetVars, catalogVars>>
    /\ LaterUnchangedExcept("pipeline")

\* download_clean_speech_files is called: the catalog and the detail pages are as
\* they are, and fetch_all_books(start_page, end_page) starts without the
\* bound-extension loop (need_update_page is left at its default)
InitPipeline ==
    /\ AssetNew(None)
    /\ transport = Idle
    /\ batch = Idle
    /\ chapter_fetch = Idle
    /\ item_fetch = Idle
    /\ noise = Idle
    /\ lang_input = Idle
    /\ dir_tasks = Idle
    /\ size_input = Idle
    /\ page_http = [calls |-> << >>, sent |-> << >>, order |-> << >>, out |-> "run"]
    /\ start_page \in 1..MaxPage
    /\ end_page \in 1..MaxPage
    /\ start_page < end_page
    /\ \E site \in [1..MaxPage -> PipelineDetails] :
          /\ \A p \in 1..MaxPage : p \notin page_range(start_page, end_page)
                                       => site[p] = UnrequestedDetail
          /\ pipeline = [site |-> site, out |-> "catalog"]
    /\ NUM_LANGUAGES \in 1..MaxCap
    /\ CHAPTERS_PER_LANGUAGE \in 1..MaxCap
    /\ chapters = << >>
    /\ language_keys = << >>
    /\ languages = << >>
    /\ chapter_count = 0
    /\ readers = {}
    /\ chapters_to_download = << >>
    /\ idx = 0
    /\ chaps_per_lang = 0
    /\ pos = 0
    /\ sel_pc = "idle"
    /\ server \in [1..MaxPage -> PipelineResponses]
    /\ \A p \in 1..MaxPage : p \notin page_range(start_page, end_page)
                                 => server[p] = UnrequestedResponse
    /\ need_update_page = FALSE
    /\ probes = << >>
    /\ pending = {}
    /\ fetched_titles = << >>
    /\ fetch_count = << >>
    /\ all_books = << >>
    /\ cat_pc = "probe"

NextPipeline ==
    \/ StartFetch
    \/ \E p \in 1..MaxPage : FetchPage(p)
    \/ Merge
    \/ PipelineFetchChapters
    \/ \E b \in 1..MaxBooks : ChapterTask(b)
    \/ AssignChapters
    \/ PipelineGroup
    \/ GroupChapter
    \/ StartSelection
    \/ NextLanguage
    \/ ConsiderChapter

SpecPipeline == InitPipeline /\ [][NextPipeline]_vars

\* The same run with every task done in the order of the inputs, computed from
\* the page contents alone.

\* the books of the pages first..last, in page order
RECURSIVE BooksInPageOrder(_, _)
BooksInPageOrder(first, last) ==
    IF first > last THEN << >>
    ELSE (IF fetch_titles_from_page(first, TRUE).ok
          THEN fetch_titles_from_page(first, TRUE).books ELSE << >>)
         \o BooksInPageOrder(first + 1, last)

\* the chapters of the books bs, book after book in the order of the rows
RECURSIVE ChaptersInBookOrder(_)
ChaptersInBookOrder(bs) ==
    IF bs = << >> THEN << >>
    ELSE LET detail == pipeline.site[Head(bs).title]
             list   == fetch_all_chapters(detail.page, 0).chapters
         IN  [k \in 1..Len(list) |-> ChapterOfRow(detail, list[k].number)]
             \o ChaptersInBookOrder(Tail(bs))

\* whether a task of the run raises
SomeTaskRaises ==
    \/ \E p \in page_range(start_page, end_page) :
          fetch_titles_from_page(p, TRUE).raises # "no"
    \/ \E i \in 1..Len(BooksInPageOrder(start_page, end_page - 1)) :
          fetch_all_chapters(
             pipeline.site[BooksInPageOrder(start_page, end_page - 1)[i].title].page,
             0).raises # "no"

\* the language codes of chs in the order in which they are first seen
RECURSIVE FirstSeenCodes(_)
FirstSeenCodes(chs) ==
    IF chs = << >> THEN << >>
    ELSE LET front == FirstSeenCodes(SubSeq(chs, 1, Len(chs) - 1))
             code  == chs[Len(chs)].language_code
         IN  IF \E i \in 1..Len(front) : front[i] = code THEN front
             ELSE Append(front, code)

\* the chapters of chs with the language code `code`, in order
RECURSIVE BucketOf(_, _)
BucketOf(chs, code) ==
    IF chs = << >> THEN << >>
    ELSE (IF Head(chs).language_code = code THEN <<Head(chs)>> ELSE << >>)
         \o BucketOf(Tail(chs), code)

\* lines 46-54 on one bucket: taken are the chapters selected so far
RECURSIVE GreedyBucket(_, _, _)
GreedyBucket(bucket, taken, count) ==
    IF bucket = << >> \/ count >= CHAPTERS_PER_LANGUAGE THEN taken
    ELSE IF \E i \in 1..Len(taken) : taken[i].reader_name = Head(bucket).reader_name
    THEN GreedyBucket(Tail(bucket), taken, count)
    ELSE GreedyBucket(Tail(bucket), Append(taken, Head(bucket)), count + 1)

\* lines 42-54 from the language at place i on
RECURSIVE GreedyLanguages(_, _, _)
GreedyLanguages(chs, i, taken) ==
    IF i > Len(FirstSeenCodes(chs)) \/ i > NUM_LANGUAGES THEN taken
    ELSE GreedyLanguages(chs, i + 1,
                         GreedyBucket(BucketOf(chs, FirstSeenCodes(chs)[i]), taken, 0))

\* the selection of the run in input order
SelectionInInputOrder ==
    GreedyLanguages(
       Numbered(ChaptersInBookOrder(BooksInPageOrder(start_page, end_page - 1))),
       1, << >>)

\* C28: the selection does not depend on the order in which the page tasks and
\* the chapter tasks complete: whatever that order, the run ends as the run in
\* input order does, it raises exactly if a task raises on the page contents, and
\* its selected list is the list that the page contents give, in the same order.
C28_SelectionIgnoresCompletionOrder ==
    /\ (cat_pc = "raised" \/ chapter_fetch.out = "raised") => SomeTaskRaises
    /\ sel_pc # "idle" => ~SomeTaskRaises
    /\ sel_pc = "done" => chapters_to_download = SelectionInInputOrder

\* C28 witness: the second page task completed before the first and the second
\* chapter task before the first, and the selection took chapters of both books.
C28_Witness ==
    /\ sel_pc = "done"
    /\ Len(page_http.order) = 2
    /\ page_http.order[1] > page_http.order[2]
    /\ chapter_fetch.order = <<2, 1>>
    /\ Len(chapters_to_download) = 2
    /\ chapters_to_download[1].n = 1
    /\ chapters_to_download[2].n = 2
    /\ chapters_to_download[1].language_code # chapters_to_download[2].language_code

----------------------------------------------------------------------------
(* The size setter of AudioBookFile (src/book.py, lines 153-198) *)

\* str.replace(c, "") and str.replace(a, b) for one-character a, b, c
RemoveChar(s, c) == SelectSeq(s, LAMBDA x : x # c)
ReplaceChar(s, a, b) == [i \in 1..Len(s) |-> IF s[i] = a THEN b ELSE s[i]]

\* `unit in new_size` for a one-character unit
InText(unit, s) == \E i \in 1..Len(s) : s[i] = unit

DecimalDigits == <<"0", "1", "2", "3", "4", "5", "6", "7", "8", "9">>

IsDigit(c) == \E d \in 1..10 : DecimalDigits[d] = c

DigitValue(c) == (CHOOSE d \in 1..10 : DecimalDigits[d] = c) - 1

\* the digits of s read as a decimal number, the points left out
RECURSIVE DigitsValue(_)
DigitsValue(s) ==
    IF s = << >> THEN 0
    ELSE IF s[Len(s)] = "." THEN DigitsValue(SubSeq(s, 1, Len(s) - 1))
    ELSE 10 * DigitsValue(SubSeq(s, 1, Len(s) - 1)) + DigitValue(s[Len(s)])

\* 10 to the number of digits after the point of s
RECURSIVE PowerOfTen(_)
PowerOfTen(k) == IF k = 0 THEN 1 ELSE 10 * PowerOfTen(k - 1)

FractionScale(s) ==
    IF InText(".", s)
    THEN PowerOfTen(Len(s) - (CHOOSE i \in 1..Len(s) : s[i] = "."))
    ELSE 1

\* float(s) for a text without sign, exponent, underscore, "inf" or "nan": it
\* parses when s is digits with at most one point and at least one digit, and
\* its value is num / den; any other such text raises ValueError
float_of(s) ==
    IF /\ \A i \in 1..Len(s) : IsDigit(s[i]) \/ s[i] = "."
       /\ \E i \in 1..Len(s) : IsDigit(s[i])
       /\ Cardinality({ i \in 1..Len(s) : s[i] = "." }) <= 1
    THEN [ok |-> TRUE, num |-> DigitsValue(s), den |-> FractionScale(s)]
    ELSE [ok |-> FALSE, num |-> 0, den |-> 1]

\* int(float(s) * multiplier) for a float that parsed
int_of_product(f, multiplier) == (f.num * multiplier) \div f.den

\* lines 157-161: the text without spaces, in upper case, without parentheses,
\* with "," as "." and without "B"
size_text_normalised(new_size) ==
    Strip(RemoveChar(ReplaceChar(RemoveChar(RemoveChar(
        Upper(RemoveChar(new_size, " ")), ")"), "("), ",", "."), "B"))

SizeUnits == <<"K", "M", "G", "T", "P", "E", "Z", "Y">>

\* lines 174-181: the loop over the units from the unit at place i on; a unit
\* found while none is the target becomes the target and multiplies the
\* multiplier, a second unit found rejects the text
RECURSIVE unit_loop(_, _, _, _)
unit_loop(s, i, target_unit, multiplier) ==
    IF i > Len(SizeUnits) THEN [target_unit |-> target_unit, multiplier |-> multiplier]
    ELSE IF target_unit = None /\ InText(SizeUnits[i], s)
    THEN unit_loop(s, i + 1, <<SizeUnits[i]>>, multiplier * 1024)
    ELSE IF target_unit # None /\ InText(SizeUnits[i], s)
    THEN [target_unit |-> None, multiplier |-> multiplier]
    ELSE unit_loop(s, i + 1, target_unit, multiplier)

\* lines 156-189: _size after the setter was given the text new_size
size_setter_str(new_size) ==
    LET s        == size_text_normalised(new_size)
        is_bytes == float_of(s).ok
        found    == IF is_bytes THEN [target_unit |-> <<"B">>, multiplier |-> 1]
                    ELSE unit_loop(s, 1, None, 1 * 1024)
        number   == Strip(RemoveChar(s, found.target_unit[1]))
    IN  IF found.target_unit = None THEN size
        ELSE IF float_of(number).ok
        THEN {int_of_product(float_of(number), found.multiplier)}
        ELSE size

\* The values given to the setter.  A text is a number, written in decimal
\* digits, and a suffix.
SizeNumbers == { <<"0">>, <<"5">>, <<"1", "2">>, <<"1", "0", "0">> }

\* the number that the digits of a text stand for
NumberValue(digits) ==
    CASE digits = <<"0">> -> 0
      [] digits = <<"5">> -> 5
      [] digits = <<"1", "2">> -> 12
      [] digits = <<"1", "0", "0">> -> 100

SizeSuffixes ==
    { << >>, <<"B">>, <<" ", "K", "B">>, <<" ", "M", "B">>, <<" ", "G", "B">>,
      <<" ", "T", "B">>, <<"k", "b">>, <<"M">>, <<" ", "K", "M">>, <<" ", "P", "B">>,
      <<",", "5", " ", "M", "B">>, <<" ", "x">> }

\* lines 154-189: the setter is given the text made of digits and suffix
SetSizeText(digits, suffix) ==
    /\ size_input.out \in {"new", "set"}
    /\ size' = size_setter_str(digits \o suffix)
    /\ size_input' = [type |-> "str", digits |-> digits, suffix |-> suffix,
                      text |-> digits \o suffix, out |-> "set"]
    /\ op' = "set_size"
    /\ ret' = "ok"
    /\ moved' = FALSE
    /\ overwrite' = FALSE
    /\ net' = "none"
    /\ UNCHANGED <<language_code, download_url, download_dir, download_filename,
                   download_path, files, dirs, requests>>
    /\ UNCHANGED <<selectVars, catalogVars>>
    /\ LaterUnchangedExcept("size_input")

\* lines 191-192: the setter is given an int
SetSizeInt(new_size) ==
    /\ size_input.out \in {"new", "set"}
    /\ size' = {new_size}
    /\ size_input' = [type |-> "int", value |-> new_size, out |-> "set"]
    /\ op' = "set_size"
    /\ ret' = "ok"
    /\ moved' = FALSE
    /\ overwrite' = FALSE
    /\ net' = "none"
    /\ UNCHANGED <<language_code, download_url, download_dir, download_filename,
                   download_path, files, dirs, requests>>
    /\ UNCHANGED <<selectVars, catalogVars>>
    /\ LaterUnchangedExcept("size_input")

\* lines 194-195: the setter is given a value that is neither str nor int (a
\* float, None) and raises
SetSizeOther ==
    /\ size_input.out \in {"new", "set"}
    /\ size_input' = [type |-> "other", out |-> "set"]
    /\ op' = "set_size"
    /\ ret' = "Exception"
    /\ moved' = FALSE
    /\ overwrite' = FALSE
    /\ net' = "none"
    /\ UNCHANGED <<language_code, download_url, download_dir, download_filename,
                   download_path, size, files, dirs, requests>>
    /\ UNCHANGED <<selectVars, catalogVars>>
    /\ LaterUnchangedExcept("size_input")

InitSize ==
    /\ AssetNew(None)
    /\ SelectIdle
    /\ CatalogIdle
    /\ LaterIdleExcept("size_input")
    /\ size_input = [type |-> "none", out |-> "new"]

NextSize ==
    \/ \E n \in SizeNumbers, x \in SizeSuffixes : SetSizeText(n, x)
    \/ \E n \in SizeNumbers : SetSizeInt(NumberValue(n))
    \/ SetSizeOther

SpecSize == InitSize /\ [][NextSize]_vars

\* s = n * 1024^k, without computing the power
RECURSIVE IsTimes1024(_, _, _)
IsTimes1024(s, n, k) ==
    IF k = 0 THEN s = n
    ELSE s % 1024 = 0 /\ IsTimes1024(s \div 1024, n, k - 1)

\* the power of 1024 that the claim gives to a suffix made of one unit
UnitPower(suffix) ==
    CASE suffix = <<" ", "K", "B">> -> 1
      [] suffix = <<" ", "M", "B">> -> 2
      [] suffix = <<" ", "G", "B">> -> 3
      [] suffix = <<" ", "T", "B">> -> 4

\* C31: a text made of an integer n and one unit (KB, MB, GB or TB) stores
\* n * 1024^k bytes, with k = 1 for K, 2 for M, 3 for G and 4 for T; a text that
\* holds only a number stores that number of bytes; an int is stored unchanged.
C31_SizeUnitsArePowersOf1024 ==
    size_input.out = "set" =>
       /\ (size_input.type = "str"
            /\ size_input.suffix \in { <<" ", "K", "B">>, <<" ", "M", "B">>,
                                       <<" ", "G", "B">>, <<" ", "T", "B">> })
             => \E s \in size :
                   IsTimes1024(s, NumberValue(size_input.digits),
                               UnitPower(size_input.suffix))
       /\ (size_input.type = "str" /\ size_input.suffix = << >>)
             => size = {NumberValue(size_input.digits)}
       /\ size_input.type = "int" => size = {size_input.value}

====
